---- MODULE Spec2Model ----
(***************************************************************************)
(* Model of the Stable Audio JNI bridge                                    *)
(* (app/src/main/cpp/stable_audio_jni.cpp): the lazily loaded three-stage  *)
(* pipeline T5 -> DiT -> AutoEncoder behind the JNI entry points           *)
(* loadModels, generate, cancel, getProgress, getLastError.                *)
(*                                                                         *)
(* One StableAudioHandle is modelled.  Its unique_ptr fields are booleans  *)
(* (TRUE = non-null).  Every generate caller is a thread with a program    *)
(* counter; the points at which threads interleave are the mutex           *)
(* acquisition, the atomic loads and stores of progress and cancelled and  *)
(* the calls of set_error (g_error_mutex).                                 *)
(*                                                                         *)
(* TensorFlow Lite is an external library.  Its calls are modelled by      *)
(* their documented results: InterpreterBuilder leaves the interpreter     *)
(* null exactly when it fails, Interpreter::tensor(i) is null for an index *)
(* outside the tensor table, and the outcome of opening a file, attaching  *)
(* a delegate, allocating tensors and invoking a graph is chosen by the    *)
(* environment.                                                            *)
(***************************************************************************)
EXTENDS Integers, Sequences, FiniteSets, TLC

\* ------------------------------------------------------------------ bounds
\* Largest num_steps a caller passes (the code clamps to 1..100).
MaxSteps == 2
\* Most failures the environment injects in one run (a missing file, a
\* failed load or Invoke, a defective model file, an unwritable output).
MaxFaults == 1
\* Largest element count of a latent / decoder-input tensor of a model file.
MaxElems == 3
\* Longest duration a caller requests, in eighths of a second (12 s; the
\* code clamps to 0.5 s .. 11 s), and the largest step count requested.
MaxEighths == 96
MaxRequestedSteps == 101
\* Most frames of a waveform file that are kept byte by byte.
MaxFrames == 3
\* Resolution of a sigma in the sampler arithmetic: multiples of 1/SigmaDen.
SigmaDen == 2

Threads == {"A", "B"}
NoThread == "none"
NoError == ""

VARIABLES
    \* ---- process-wide (lines 172-173)
    g_last_error,
    \* ---- the handle returned by loadModels: "null" before, "live" after
    handle,
    try_gpu,
    \* ---- StableAudioHandle fields (lines 314-362)
    t5_model, t5_interpreter, xnnpack_delegate_t5,
    dit_model, dit_interpreter, gpu_delegate_dit, xnnpack_delegate_dit,
    autoencoder_model, autoencoder_interpreter,
    gpu_delegate_autoencoder, xnnpack_delegate_autoencoder,
    progress, cancelled, generation_mutex,
    \* ---- one generate call per thread: position and locals
    pc, steps, i, latent_buffer,
    t5_crossattn_out_id, t5_globalcond_out_id, dit_x_num_elems, ae_in_elems,
    \* ---- the sizes of std::vector<float> crossattn_buffer, globalcond_buffer
    crossattn_buffer, globalcond_buffer,
    \* ---- the Invoke() calls of this call so far, per interpreter, and the
    \*      indices into t_buffer of the last value written to the time input
    \*      and of the last two values handed to sampler_ping_pong
    invoked,
    \* ---- what the call handed to its caller: return value and the message
    \*      the call itself passed to set_error
    ret, err,
    \* ---- cancel() was called while this call was in flight and had not
    \*      passed its last checkpoint
    signalled,
    \* ---- save_as_wav of this call opened the output file
    wav_written,
    \* ---- the poller: <<last value getProgress returned, whether that read
    \*      fell into the running call, after its reset of progress>>
    polled,
    \* ---- the last loadModels call: <<what it returned, the message it set>>
    lm_result,
    \* ---- the process died (null dereference)
    crashed,
    \* ---- failures the environment has injected so far
    faults,
    \* ---- the last call of a stage method or helper function made on its
    \*      own, outside generate: <<name, arguments and results>>
    unit

t5vars == <<t5_model, t5_interpreter, xnnpack_delegate_t5>>
ditvars == <<dit_model, dit_interpreter, gpu_delegate_dit, xnnpack_delegate_dit>>
aevars == <<autoencoder_model, autoencoder_interpreter,
            gpu_delegate_autoencoder, xnnpack_delegate_autoencoder>>
stagevars == <<t5vars, ditvars, aevars>>
sharedvars == <<progress, cancelled>>
localvars == <<steps, i, latent_buffer, t5_crossattn_out_id, t5_globalcond_out_id,
               dit_x_num_elems, ae_in_elems, crossattn_buffer, globalcond_buffer,
               invoked>>
vars == <<g_last_error, handle, try_gpu, stagevars, sharedvars, generation_mutex,
          pc, localvars, ret, err, signalled, wav_written, polled, lm_result, crashed,
          faults, unit>>

\* The environment may fail a step while its budget lasts.
MayFail == faults < MaxFaults
Outcomes == IF MayFail THEN BOOLEAN ELSE {TRUE}
Count(failed) == faults' = IF failed THEN faults + 1 ELSE faults

\* Build configuration (lines 16-30): both delegates compiled in.  A build
\* without one behaves as a load in which that delegate does not attach.
HAS_GPU_DELEGATE == TRUE
HAS_XNNPACK_DELEGATE == TRUE

\* ------------------------------------------------------------- progress
\* std::atomic<float> progress.  A value is the exact fraction <<n, d>> in
\* lowest terms, so that equal values are equal states;
\* float rounding is monotone, so the order of the stored floats is the
\* order of these fractions (0.10f + 0.75f rounds to 0.85f).
RECURSIVE GCD(_, _)
GCD(a, b) == IF b = 0 THEN a ELSE GCD(b, a % b)
Frac(n, d) == <<n \div GCD(n, d), d \div GCD(n, d)>>
Leq(a, b) == a[1] * b[2] <= b[1] * a[2]
Less(a, b) == a[1] * b[2] < b[1] * a[2]
\* line 1214: 0.10f + (0.75f * (i + 1) / steps)
step_progress_remaining(k, n) == Frac(10 * n + 75 * (n - k), 100 * n)

step_progress_unshifted(k, n) == Frac(75 * (k + 1), 100 * n)

step_progress(k, n) == Frac(10 * n + 75 * (k + 1), 100 * n)

\* -------------------------------------------------- request parameters
\* line 851: std::max(1, std::min(100, num_steps))
Min(a, b) == IF a < b THEN a ELSE b
Max(a, b) == IF a > b THEN a ELSE b
ClampSteps(num_steps) == Max(1, Min(100, num_steps))

\* ------------------------------------------------------ slot resolution
\* std::string::find(pattern) != npos
Contains(name, pattern) ==
    \E k \in 1..(Len(name) - Len(pattern) + 1) :
        SubSeq(name, k, k + Len(pattern) - 1) = pattern

\* lines 149-165.  names is the tensor list in declaration order; the result
\* is the position (from 1) of the first tensor whose name contains any
\* pattern, -1 when there is none.
findTensorByName(names, name_patterns) ==
    LET hits == {k \in 1..Len(names) :
                    \E p \in 1..Len(name_patterns) : Contains(names[k], name_patterns[p])}
    IN  IF hits = {} THEN -1 ELSE CHOOSE k \in hits : \A m \in hits : k <= m

\* ---------------------------------------------------------- last error
\* lines 175-179, called by generate thread t.  err[t] keeps the argument.
set_error_skipped(t, error) == UNCHANGED <<g_last_error, err>>

set_error(t, error) ==
    /\ g_last_error' = error
    /\ err' = [err EXCEPT ![t] = error]

no_error_clearing == g_last_error' = NoError /\ UNCHANGED err

no_error == UNCHANGED <<g_last_error, err>>

\* ------------------------------------------------- lazy loading helpers
\* What the environment decides during one load: the model file opens, the
\* interpreter builds, the GPU / XNNPACK delegate attaches, tensors allocate.
\* A step that fails makes the later ones moot, so one outcome stands for
\* each failing step; a load that succeeds varies in the delegates attached.
LoadOutcome(open, build, gpu, xnn, alloc) ==
    [open |-> open, build |-> build, gpu |-> gpu, xnn |-> xnn, alloc |-> alloc]

LoadOutcomes ==
    { LoadOutcome(FALSE, TRUE, TRUE, TRUE, TRUE),
      LoadOutcome(TRUE, FALSE, TRUE, TRUE, TRUE),
      LoadOutcome(TRUE, TRUE, TRUE, TRUE, FALSE),
      LoadOutcome(TRUE, TRUE, FALSE, TRUE, FALSE) }
    \cup { LoadOutcome(TRUE, TRUE, gpu, xnn, TRUE) : gpu \in BOOLEAN, xnn \in BOOLEAN }

\* lines 365-438
loadT5_partial(o) ==
    IF t5_interpreter THEN UNCHANGED t5vars
    ELSE /\ t5_model' = o.open
         /\ t5_interpreter' = (o.open /\ o.build)
         /\ xnnpack_delegate_t5' = (o.open /\ o.build /\ HAS_XNNPACK_DELEGATE /\ o.xnn)

loadT5_ret(o) == t5_interpreter \/ (o.open /\ o.build /\ o.alloc)

loadT5_error(o) ==
    IF ~o.open THEN "Failed to load T5 model"
    ELSE IF ~o.build THEN "Failed to build T5 interpreter"
    ELSE "Failed to allocate T5 tensors"

loadT5(o) ==
    IF t5_interpreter THEN UNCHANGED t5vars
    ELSE IF ~o.open THEN
        /\ t5_model' = FALSE
        /\ UNCHANGED <<t5_interpreter, xnnpack_delegate_t5>>
    ELSE IF ~o.build THEN
        /\ t5_model' = FALSE
        /\ t5_interpreter' = FALSE
        /\ UNCHANGED xnnpack_delegate_t5
    ELSE IF ~o.alloc THEN
        /\ xnnpack_delegate_t5' = FALSE
        /\ t5_interpreter' = FALSE
        /\ t5_model' = FALSE
    ELSE
        /\ t5_model' = TRUE
        /\ t5_interpreter' = TRUE
        /\ xnnpack_delegate_t5' = (HAS_XNNPACK_DELEGATE /\ o.xnn)

\* lines 440-449
unloadT5_leak == UNCHANGED t5vars

unloadT5 ==
    IF t5_interpreter \/ t5_model THEN
        /\ xnnpack_delegate_t5' = FALSE
        /\ t5_interpreter' = FALSE
        /\ t5_model' = FALSE
    ELSE UNCHANGED t5vars

\* lines 451-548
loadDiT_ret_ignored(o) == TRUE

loadDiT_ret_needs_delegate(o) ==
    dit_interpreter \/ (o.open /\ o.build /\ o.alloc /\ (o.gpu \/ o.xnn))

loadDiT_ret(o) == dit_interpreter \/ (o.open /\ o.build /\ o.alloc)

loadDiT_error(o) ==
    IF ~o.open THEN "Failed to load DiT model"
    ELSE IF ~o.build THEN "Failed to build DiT interpreter - check for unsupported ops"
    ELSE "Failed to allocate DiT tensors"

loadDiT(o) ==
    IF dit_interpreter THEN UNCHANGED ditvars
    ELSE IF ~o.open THEN
        /\ dit_model' = FALSE
        /\ UNCHANGED <<dit_interpreter, gpu_delegate_dit, xnnpack_delegate_dit>>
    ELSE IF ~o.build THEN
        /\ dit_model' = FALSE
        /\ dit_interpreter' = FALSE
        /\ UNCHANGED <<gpu_delegate_dit, xnnpack_delegate_dit>>
    ELSE IF ~o.alloc THEN
        /\ gpu_delegate_dit' = FALSE
        /\ xnnpack_delegate_dit' = FALSE
        /\ dit_interpreter' = FALSE
        /\ dit_model' = FALSE
    ELSE
        LET used_gpu == HAS_GPU_DELEGATE /\ try_gpu /\ o.gpu
        IN  /\ dit_model' = TRUE
            /\ dit_interpreter' = TRUE
            /\ gpu_delegate_dit' = used_gpu
            /\ xnnpack_delegate_dit' = (HAS_XNNPACK_DELEGATE /\ ~used_gpu /\ o.xnn)

\* lines 550-562
unloadDiT_leak == UNCHANGED ditvars

unloadDiT ==
    IF dit_interpreter \/ dit_model THEN
        /\ gpu_delegate_dit' = FALSE
        /\ xnnpack_delegate_dit' = FALSE
        /\ dit_interpreter' = FALSE
        /\ dit_model' = FALSE
    ELSE UNCHANGED ditvars

\* lines 564-704
loadAutoEncoder_reloading(o) ==
    LET ok == o.open /\ o.build /\ o.alloc
        used_gpu == HAS_GPU_DELEGATE /\ try_gpu /\ o.gpu
    IN  /\ autoencoder_model' = ok
        /\ autoencoder_interpreter' = ok
        /\ gpu_delegate_autoencoder' = (ok /\ used_gpu)
        /\ xnnpack_delegate_autoencoder' = (ok /\ HAS_XNNPACK_DELEGATE /\ ~used_gpu /\ o.xnn)

loadAutoEncoder_ret(o) == autoencoder_interpreter \/ (o.open /\ o.build /\ o.alloc)

loadAutoEncoder_error(o) ==
    IF ~o.open THEN "Failed to load AutoEncoder model"
    ELSE IF ~o.build THEN "Failed to build AutoEncoder interpreter"
    ELSE "Failed to allocate AutoEncoder tensors"

loadAutoEncoder(o) ==
    IF autoencoder_interpreter THEN UNCHANGED aevars
    ELSE IF ~o.open THEN
        /\ autoencoder_model' = FALSE
        /\ UNCHANGED <<autoencoder_interpreter, gpu_delegate_autoencoder,
                       xnnpack_delegate_autoencoder>>
    ELSE IF ~o.build THEN
        /\ autoencoder_model' = FALSE
        /\ autoencoder_interpreter' = FALSE
        /\ UNCHANGED <<gpu_delegate_autoencoder, xnnpack_delegate_autoencoder>>
    ELSE IF ~o.alloc THEN
        /\ gpu_delegate_autoencoder' = FALSE
        /\ xnnpack_delegate_autoencoder' = FALSE
        /\ autoencoder_interpreter' = FALSE
        /\ autoencoder_model' = FALSE
    ELSE
        LET used_gpu == HAS_GPU_DELEGATE /\ try_gpu /\ o.gpu
        IN  /\ autoencoder_model' = TRUE
            /\ autoencoder_interpreter' = TRUE
            /\ gpu_delegate_autoencoder' = used_gpu
            /\ xnnpack_delegate_autoencoder' = (HAS_XNNPACK_DELEGATE /\ ~used_gpu /\ o.xnn)

\* lines 706-718
unloadAutoEncoder_leak == UNCHANGED aevars

unloadAutoEncoder ==
    IF autoencoder_interpreter \/ autoencoder_model THEN
        /\ gpu_delegate_autoencoder' = FALSE
        /\ xnnpack_delegate_autoencoder' = FALSE
        /\ autoencoder_interpreter' = FALSE
        /\ autoencoder_model' = FALSE
    ELSE UNCHANGED aevars

\* A stage is loaded when it holds a model or an interpreter.
T5Loaded == t5_model \/ t5_interpreter
DiTLoaded == dit_model \/ dit_interpreter
AutoEncoderLoaded == autoencoder_model \/ autoencoder_interpreter

\* Unloaded: model, interpreter and delegates all released.
T5Unloaded == ~t5_model /\ ~t5_interpreter /\ ~xnnpack_delegate_t5
DiTUnloaded ==
    ~dit_model /\ ~dit_interpreter /\ ~gpu_delegate_dit /\ ~xnnpack_delegate_dit
AutoEncoderUnloaded ==
    /\ ~autoencoder_model /\ ~autoencoder_interpreter
    /\ ~gpu_delegate_autoencoder /\ ~xnnpack_delegate_autoencoder

\* Ready: the interpreter is built and its model is held.
T5Ready == t5_model /\ t5_interpreter
DiTReady == dit_model /\ dit_interpreter
AutoEncoderReady == autoencoder_model /\ autoencoder_interpreter

\* ------------------------------------------------------- model files
\* The tensor tables of the model files on the device, as far as generate
\* reads them.  Names are declared tensor names in declaration order.
TensorTypes == {"int32", "int64", "float32", "uint8"}

T5Model(in_names, in_types, out_names) ==
    [in_names |-> in_names, in_types |-> in_types, out_names |-> out_names]

T5Named == <<"input_ids", "attention_mask", "seconds_total">>
T5Legacy == <<"args_0", "args_1", "args_2">>
T5Outputs == <<"cross_attn_cond", "cross_attn_mask", "global_cond">>

T5Models ==
    { T5Model(T5Named, <<"int64", "int64", "float32">>, T5Outputs),
      T5Model(T5Legacy, <<"int32", "int32", "int32">>, <<"out_0", "out_1", "out_2">>),
      T5Model(T5Named, <<"int32", "float32", "int64">>, <<"cross_attn_cond">>),
      T5Model(T5Named, <<"int64", "int64", "float32">>, << >>),
      T5Model(<<"input_ids", "attention_mask">>, <<"int64", "int64">>, T5Outputs),
      T5Model(T5Named, <<"float32", "int64", "float32">>, T5Outputs),
      T5Model(T5Named, <<"int64", "uint8", "float32">>, T5Outputs),
      T5Model(T5Legacy, <<"int64", "int64", "uint8">>, T5Outputs) }

DiTInputNames ==
    { <<"x", "t", "cross_attn_cond", "global_cond">>,
      <<"serving_default_x:0", "serving_default_t:0", "serving_default_cross_attn_cond:0">>,
      <<"cross_attn_cond", "global_cond">>,
      <<"x", "t">> }

DiTModels ==
    [in_names : DiTInputNames, n_outputs : 0..1, x_elems : 1..MaxElems]

\* lines 882-906: name lookup, then the positional fallback (k_t5_*_idx,
\* counted from 0) when the list is long enough.
T5Slot_unchecked(names, name_patterns, fallback_idx) ==
    LET found == findTensorByName(names, name_patterns)
    IN  IF found < 0 THEN fallback_idx + 1 ELSE found

T5Slot(names, name_patterns, fallback_idx) ==
    LET found == findTensorByName(names, name_patterns)
    IN  IF found < 0 /\ Len(names) > fallback_idx THEN fallback_idx + 1 ELSE found

t5_ids_in_id(m) == T5Slot(m.in_names, <<"input_ids", "ids">>, 0)
t5_attnmask_in_id(m) == T5Slot(m.in_names, <<"attention_mask", "attn_mask">>, 1)
t5_time_in_id(m) == T5Slot(m.in_names, <<"seconds_total", "time", "duration">>, 2)
t5_crossattn_out(m) ==
    T5Slot(m.out_names, <<"cross_attn", "encoder_hidden", "conditioning">>, 0)
t5_globalcond_out(m) == T5Slot(m.out_names, <<"global_cond", "global">>, 2)

\* lines 912-920: tensor(-1) is null and its fields are read.
T5NullDeref(m) ==
    t5_ids_in_id(m) < 0 \/ t5_attnmask_in_id(m) < 0 \/ t5_time_in_id(m) < 0

\* lines 928-1039: the message of the first input whose type no branch
\* handles, NoError when all three are bound.  typed_tensor<T> is null only
\* for a tensor of another type, which the enclosing branch rules out.
T5BindError(m) ==
    LET ids == m.in_types[t5_ids_in_id(m)]
        attnmask == m.in_types[t5_attnmask_in_id(m)]
        time == m.in_types[t5_time_in_id(m)]
    IN  IF ids \notin {"int32", "int64"} THEN "Unsupported T5 ids tensor type"
        ELSE IF attnmask \notin {"int32", "int64", "float32"}
            THEN "Unsupported T5 attnmask tensor type"
        ELSE IF time \notin {"float32", "int64", "int32"}
            THEN "Unsupported T5 time tensor type"
        ELSE NoError

\* lines 1105-1113
dit_x_in_id(m) ==
    LET found == findTensorByName(m.in_names, <<"_x:", "_x", "x:">>)
    IN  IF found < 0 THEN findTensorByName(m.in_names, <<"x">>) ELSE found

dit_t_in_id(m) ==
    LET found == findTensorByName(m.in_names, <<"_t:", "_t", "t:">>)
    IN  IF found < 0 THEN findTensorByName(m.in_names, <<"t">>) ELSE found

dit_out_id(m) == IF m.n_outputs = 0 THEN -1 ELSE 1

\* lines 1111-1112: the conditioning inputs, by name only.
dit_crossattn_in_id(m) == findTensorByName(m.in_names, <<"cross_attn", "crossattn">>)
dit_globalcond_in_id(m) == findTensorByName(m.in_names, <<"global_cond", "globalcond">>)

\* line 1120
DiTRequiredMissing_with_globalcond(m) ==
    dit_x_in_id(m) < 0 \/ dit_t_in_id(m) < 0 \/ dit_out_id(m) < 0
        \/ dit_globalcond_in_id(m) < 0

DiTRequiredMissing(m) == dit_x_in_id(m) < 0 \/ dit_t_in_id(m) < 0 \/ dit_out_id(m) < 0

\* A T5 model file on which generate cannot succeed.
T5Defective(m) ==
    T5NullDeref(m) \/ T5BindError(m) # NoError \/ t5_crossattn_out(m) < 0

\* ------------------------------------------------------------ initial
Cancelled == "Generation cancelled"


\* lines 1202-1203: curr_t = t_buffer[i], next_t = t_buffer[i + 1]
next_index_same(at) == at

next_index(at) == at + 1

\* No call in flight, no stage loaded.
Quiescent ==
    /\ t5_model = FALSE /\ t5_interpreter = FALSE /\ xnnpack_delegate_t5 = FALSE
    /\ dit_model = FALSE /\ dit_interpreter = FALSE
    /\ gpu_delegate_dit = FALSE /\ xnnpack_delegate_dit = FALSE
    /\ autoencoder_model = FALSE /\ autoencoder_interpreter = FALSE
    /\ gpu_delegate_autoencoder = FALSE /\ xnnpack_delegate_autoencoder = FALSE
    /\ progress = Frac(0, 100)
    /\ cancelled = FALSE
    /\ generation_mutex = NoThread
    /\ pc = [t \in Threads |-> "idle"]
    /\ steps = [t \in Threads |-> 0]
    /\ i = [t \in Threads |-> 0]
    /\ latent_buffer = [t \in Threads |-> 0]
    /\ t5_crossattn_out_id = [t \in Threads |-> -1]
    /\ t5_globalcond_out_id = [t \in Threads |-> -1]
    /\ dit_x_num_elems = [t \in Threads |-> 0]
    /\ ae_in_elems = [t \in Threads |-> 0]
    /\ crossattn_buffer = [t \in Threads |-> 0]
    /\ globalcond_buffer = [t \in Threads |-> 0]
    /\ invoked = [t \in Threads |->
          [t5 |-> 0, dit |-> 0, ae |-> 0, t_in |-> -1, curr_t |-> -1, next_t |-> -1]]
    /\ ret = [t \in Threads |-> "none"]
    /\ err = [t \in Threads |-> NoError]
    /\ signalled = [t \in Threads |-> FALSE]
    /\ wav_written = [t \in Threads |-> FALSE]
    /\ polled = <<Frac(0, 100), FALSE>>
    /\ crashed = FALSE
    /\ unit = <<"none">>

\* Process start: no handle yet.
Init ==
    /\ Quiescent
    /\ g_last_error = NoError
    /\ handle = "null"
    /\ try_gpu = FALSE
    /\ lm_result = <<"none", NoError>>
    /\ faults = 0

\* The state in which loadModels has returned the handle (lines 780-808),
\* after `failures` earlier attempts that found no tokenizer (line 794).
AfterLoadModels(failures) ==
    /\ Quiescent
    /\ g_last_error = IF failures = 0 THEN NoError ELSE "Failed to load tokenizer"
    /\ handle = "live"
    /\ try_gpu \in BOOLEAN
    /\ lm_result = <<"handle", NoError>>
    /\ faults = failures

Goto(t, label) == pc' = [pc EXCEPT ![t] = label]

\* ---------------------------------------------------------- loadModels
\* lines 731-809.  One handle is modelled, so loadModels runs until it has
\* returned one.  The stat() checks precede the allocation of the handle;
\* a tokenizer failure deletes it again.
LoadModelsError_without_tokenizer(dir_null, str_ok, t5_file, dit_file, ae_file, tok_ok) ==
    IF dir_null THEN "Model directory is null"
    ELSE IF ~str_ok THEN "Failed to get model directory string"
    ELSE IF ~t5_file THEN "T5 model not found"
    ELSE IF ~dit_file THEN "DiT model not found"
    ELSE IF ~ae_file THEN "AutoEncoder model not found"
    ELSE NoError

LoadModelsError(dir_null, str_ok, t5_file, dit_file, ae_file, tok_ok) ==
    IF dir_null THEN "Model directory is null"
    ELSE IF ~str_ok THEN "Failed to get model directory string"
    ELSE IF ~t5_file THEN "T5 model not found"
    ELSE IF ~dit_file THEN "DiT model not found"
    ELSE IF ~ae_file THEN "AutoEncoder model not found"
    ELSE IF ~tok_ok THEN "Failed to load tokenizer"
    ELSE NoError

LoadModels ==
    /\ ~crashed
    /\ handle = "null"
    /\ \E dir_null, str_ok, t5_file, dit_file, ae_file, tok_ok, use_gpu \in BOOLEAN :
        LET e == LoadModelsError(dir_null, str_ok, t5_file, dit_file, ae_file, tok_ok)
        IN  /\ e # NoError => MayFail
            /\ Count(e # NoError)
            /\ IF e # NoError
                 THEN /\ g_last_error' = e
                      /\ lm_result' = <<"null", e>>
                      /\ UNCHANGED <<handle, try_gpu>>
                 ELSE /\ UNCHANGED g_last_error
                      /\ lm_result' = <<"handle", NoError>>
                      /\ handle' = "live"
                      /\ try_gpu' = use_gpu
    /\ UNCHANGED <<stagevars, sharedvars, generation_mutex, pc, localvars, ret, err,
                   signalled, wav_written, polled, crashed, unit>>

\* ------------------------------------------------------------ generate
\* The positions of a call between taking the generation lock and giving
\* it back.
PipelinePcs ==
    { "store_progress", "store_cancelled", "strings", "load_t5", "t5_bind", "t5_invoke",
      "t5_unload", "t5_done", "check_dit", "load_dit", "dit_bind", "loop", "dit_invoke",
      "unload_dit", "dit_done", "check_ae", "load_ae", "ae_bind", "ae_invoke",
      "ae_output", "save_wav", "unload_ae", "store_done", "ret_true",
      "fail", "fail_t5", "fail_dit", "fail_ae" }

\* The positions up to and including the last cancel checkpoint (line 1248).
BeforeLastCheckpoint ==
    { "lock", "store_progress", "store_cancelled", "strings", "load_t5", "t5_bind",
      "t5_invoke", "t5_unload", "t5_done", "check_dit", "load_dit", "dit_bind", "loop",
      "dit_invoke", "unload_dit", "dit_done", "check_ae" }

\* lines 824-828 and the call's arguments.  steps is line 851, a function of
\* the argument alone.
Enter(t) ==
    /\ ~crashed
    /\ pc[t] = "idle"
    /\ \E handle_ptr \in {"null", handle}, num_steps \in 0..MaxSteps :
        /\ signalled' = [signalled EXCEPT ![t] = FALSE]
        /\ wav_written' = [wav_written EXCEPT ![t] = FALSE]
        /\ IF handle_ptr = "null"
           THEN /\ set_error(t, "Invalid handle")
                /\ ret' = [ret EXCEPT ![t] = "false"]
                /\ Goto(t, "returned")
                /\ UNCHANGED steps
           ELSE /\ g_last_error' = g_last_error
                /\ err' = [err EXCEPT ![t] = NoError]
                /\ ret' = [ret EXCEPT ![t] = "none"]
                /\ steps' = [steps EXCEPT ![t] = ClampSteps(num_steps)]
                /\ Goto(t, "lock")
    /\ UNCHANGED <<handle, try_gpu, stagevars, sharedvars, generation_mutex, i,
                   latent_buffer, t5_crossattn_out_id, t5_globalcond_out_id,
                   dit_x_num_elems, ae_in_elems, crossattn_buffer, globalcond_buffer, invoked,
                   polled, lm_result, crashed, faults, unit>>

\* line 831: std::lock_guard blocks until the mutex is free.
MutexFree_always == TRUE

MutexFree == generation_mutex = NoThread

Lock(t) ==
    /\ ~crashed
    /\ pc[t] = "lock"
    /\ MutexFree
    /\ generation_mutex' = t
    /\ Goto(t, "store_progress")
    /\ UNCHANGED <<g_last_error, handle, try_gpu, stagevars, sharedvars, localvars,
                   ret, err, signalled, wav_written, polled, lm_result, crashed, faults, unit>>

\* line 832.  The reads of the poller so far belong to an earlier call.
StoreProgressZero(t) ==
    /\ ~crashed
    /\ pc[t] = "store_progress"
    /\ progress' = Frac(0, 100)
    /\ polled' = <<polled[1], FALSE>>
    /\ Goto(t, "store_cancelled")
    /\ UNCHANGED <<g_last_error, handle, try_gpu, stagevars, cancelled, generation_mutex,
                   localvars, ret, err, signalled, wav_written, lm_result, crashed, faults, unit>>

\* line 833
StoreCancelledFalse_skipped(t) ==
    /\ ~crashed
    /\ pc[t] = "store_cancelled"
    /\ cancelled' = cancelled
    /\ Goto(t, "strings")
    /\ UNCHANGED <<g_last_error, handle, try_gpu, stagevars, progress, generation_mutex,
                   localvars, ret, err, signalled, wav_written, polled, lm_result, crashed, faults, unit>>

\* line 833
StoreCancelledFalse(t) ==
    /\ ~crashed
    /\ pc[t] = "store_cancelled"
    /\ cancelled' = FALSE
    /\ Goto(t, "strings")
    /\ UNCHANGED <<g_last_error, handle, try_gpu, stagevars, progress, generation_mutex,
                   localvars, ret, err, signalled, wav_written, polled, lm_result, crashed, faults, unit>>

\* lines 835-867: the JNI strings, the clamps, the tokenizer, progress 0.02.
GetStrings(t) ==
    /\ ~crashed
    /\ pc[t] = "strings"
    /\ \E strings_ok \in Outcomes :
        /\ Count(~strings_ok)
        /\ IF strings_ok
           THEN /\ progress' = Frac(2, 100)
                /\ no_error
                /\ Goto(t, "load_t5")
           ELSE /\ set_error(t, "Failed to get string parameters")
                /\ Goto(t, "fail")
                /\ UNCHANGED progress
    /\ UNCHANGED <<handle, try_gpu, stagevars, cancelled, generation_mutex, localvars,
                   ret, signalled, wav_written, polled, lm_result, crashed, unit>>

\* What no step of the pipeline body touches.
outside == <<handle, try_gpu, generation_mutex, ret, signalled, polled, lm_result, unit>>

\* ---- Phase 1: T5 conditioners
\* lines 871-873
LoadT5(t) ==
    /\ ~crashed
    /\ pc[t] = "load_t5"
    /\ \E o \in LoadOutcomes :
        /\ ~loadT5_ret(o) => MayFail
        /\ Count(~loadT5_ret(o))
        /\ loadT5(o)
        /\ IF loadT5_ret(o)
           THEN no_error /\ Goto(t, "t5_bind")
           ELSE set_error(t, loadT5_error(o)) /\ Goto(t, "fail")
    /\ UNCHANGED <<outside, ditvars, aevars, sharedvars, localvars, wav_written, crashed>>

\* lines 875-1041: slot resolution, input binding, progress 0.05.
T5Bind(t) ==
    /\ ~crashed
    /\ pc[t] = "t5_bind"
    /\ \E m \in T5Models :
        /\ T5Defective(m) => MayFail
        /\ Count(T5Defective(m))
        /\ IF T5NullDeref(m)
           THEN /\ crashed' = TRUE
                /\ no_error
                /\ UNCHANGED <<pc, progress, t5_crossattn_out_id, t5_globalcond_out_id>>
           ELSE IF T5BindError(m) # NoError
           THEN /\ set_error(t, T5BindError(m))
                /\ Goto(t, "fail_t5")
                /\ UNCHANGED <<crashed, progress, t5_crossattn_out_id, t5_globalcond_out_id>>
           ELSE /\ t5_crossattn_out_id' = [t5_crossattn_out_id EXCEPT ![t] = t5_crossattn_out(m)]
                /\ t5_globalcond_out_id' = [t5_globalcond_out_id EXCEPT ![t] = t5_globalcond_out(m)]
                /\ progress' = Frac(5, 100)
                /\ no_error
                /\ Goto(t, "t5_invoke")
                /\ UNCHANGED crashed
    /\ UNCHANGED <<outside, stagevars, cancelled, steps, i, latent_buffer,
                   dit_x_num_elems, ae_in_elems, crossattn_buffer, globalcond_buffer,
                   invoked, wav_written>>

\* lines 1043-1080: Invoke, then the copies of the outputs.  The element
\* counts are those of the model file's tensors; the global conditioning
\* output, where the model has one, is taken to hold one element.
T5Invoke(t) ==
    /\ ~crashed
    /\ pc[t] = "t5_invoke"
    /\ \E invoke_ok \in Outcomes :
        /\ Count(~invoke_ok)
        /\ invoked' = [invoked EXCEPT ![t].t5 = @ + 1]
        /\ IF ~invoke_ok
           THEN /\ set_error(t, "T5 inference failed")
                /\ Goto(t, "fail_t5")
                /\ UNCHANGED <<crossattn_buffer, globalcond_buffer>>
           ELSE IF t5_crossattn_out_id[t] < 0
           THEN /\ set_error(t, "T5 cross-attention output not found")
                /\ Goto(t, "fail_t5")
                /\ UNCHANGED <<crossattn_buffer, globalcond_buffer>>
           ELSE \E crossattn_elems \in 1..MaxElems, globalcond_elems \in {1} :
                /\ crossattn_buffer' = [crossattn_buffer EXCEPT ![t] = crossattn_elems]
                /\ globalcond_buffer' =
                       IF t5_globalcond_out_id[t] >= 0
                       THEN [globalcond_buffer EXCEPT ![t] = globalcond_elems]
                       ELSE globalcond_buffer
                /\ no_error
                /\ Goto(t, "t5_unload")
    /\ UNCHANGED <<outside, stagevars, sharedvars, steps, i, latent_buffer,
                   t5_crossattn_out_id, t5_globalcond_out_id, dit_x_num_elems, ae_in_elems,
                   wav_written, crashed>>

\* line 1083
UnloadT5(t) ==
    /\ ~crashed
    /\ pc[t] = "t5_unload"
    /\ unloadT5
    /\ Goto(t, "t5_done")
    /\ UNCHANGED <<outside, g_last_error, err, ditvars, aevars, sharedvars, localvars,
                   wav_written, crashed, faults>>

\* line 1084
StoreProgressT5(t) ==
    /\ ~crashed
    /\ pc[t] = "t5_done"
    /\ progress' = Frac(10, 100)
    /\ Goto(t, "check_dit")
    /\ UNCHANGED <<outside, g_last_error, err, stagevars, cancelled, localvars,
                   wav_written, crashed, faults>>

\* A cancel checkpoint: handle->cancelled.load().
CancelSeen_never == FALSE

CancelSeen_inverted == ~cancelled

CancelSeen == cancelled

\* lines 1086-1089
CheckCancelDiT(t) ==
    /\ ~crashed
    /\ pc[t] = "check_dit"
    /\ IF CancelSeen
       THEN set_error(t, Cancelled) /\ Goto(t, "fail")
       ELSE no_error /\ Goto(t, "load_dit")
    /\ UNCHANGED <<outside, stagevars, sharedvars, localvars, wav_written, crashed, faults>>

\* ---- Phase 2: DiT diffusion
\* lines 1093-1095
LoadDiT(t) ==
    /\ ~crashed
    /\ pc[t] = "load_dit"
    /\ \E o \in LoadOutcomes :
        /\ ~loadDiT_ret(o) => MayFail
        /\ Count(~loadDiT_ret(o))
        /\ loadDiT(o)
        /\ IF loadDiT_ret(o)
           THEN no_error /\ Goto(t, "dit_bind")
           ELSE set_error(t, loadDiT_error(o)) /\ Goto(t, "fail")
    /\ UNCHANGED <<outside, t5vars, aevars, sharedvars, localvars, wav_written, crashed>>

\* lines 1097-1189: slot resolution, conditioning inputs, noise, schedule.
DiTBind(t) ==
    /\ ~crashed
    /\ pc[t] = "dit_bind"
    /\ \E m \in DiTModels :
        /\ DiTRequiredMissing(m) => MayFail
        /\ Count(DiTRequiredMissing(m))
        /\ IF DiTRequiredMissing(m)
           THEN /\ set_error(t, "Failed to find required DiT tensors")
                /\ Goto(t, "fail_dit")
                /\ UNCHANGED <<dit_x_num_elems, i, crossattn_buffer, globalcond_buffer>>
           ELSE /\ dit_x_num_elems' = [dit_x_num_elems EXCEPT ![t] = m.x_elems]
                /\ crossattn_buffer' = [crossattn_buffer EXCEPT ![t] = 0]
                /\ globalcond_buffer' = [globalcond_buffer EXCEPT ![t] = 0]
                /\ i' = [i EXCEPT ![t] = 0]
                /\ no_error
                /\ Goto(t, "loop")
    /\ UNCHANGED <<outside, stagevars, sharedvars, steps, latent_buffer,
                   t5_crossattn_out_id, t5_globalcond_out_id, ae_in_elems, invoked,
                   wav_written, crashed>>

\* lines 1195-1200: the loop condition and the checkpoint of one iteration.
LoopCheck(t) ==
    /\ ~crashed
    /\ pc[t] = "loop"
    /\ i[t] < steps[t]
    /\ IF CancelSeen
       THEN set_error(t, Cancelled) /\ Goto(t, "fail_dit")
       ELSE no_error /\ Goto(t, "dit_invoke")
    /\ UNCHANGED <<outside, stagevars, sharedvars, localvars, wav_written, crashed, faults>>

\* lines 1202-1215: time input, Invoke, sampler update, progress.  The
\* message's step number is left out.
DiTInvoke(t) ==
    /\ ~crashed
    /\ pc[t] = "dit_invoke"
    /\ \E invoke_ok \in Outcomes :
        /\ Count(~invoke_ok)
        /\ IF ~invoke_ok
           THEN /\ set_error(t, "DiT inference failed at step")
                /\ Goto(t, "fail_dit")
                /\ invoked' = [invoked EXCEPT ![t].dit = @ + 1, ![t].t_in = i[t]]
                /\ UNCHANGED <<progress, i>>
           ELSE /\ invoked' = [invoked EXCEPT ![t].dit = @ + 1, ![t].t_in = i[t],
                                              ![t].curr_t = i[t],
                                              ![t].next_t = next_index(i[t])]
                /\ progress' = step_progress(i[t], steps[t])
                /\ i' = [i EXCEPT ![t] = i[t] + 1]
                /\ no_error
                /\ Goto(t, "loop")
    /\ UNCHANGED <<outside, stagevars, cancelled, steps, latent_buffer,
                   t5_crossattn_out_id, t5_globalcond_out_id, dit_x_num_elems,
                   ae_in_elems, crossattn_buffer, globalcond_buffer, wav_written, crashed>>

\* lines 1227-1230: the loop is over, the state is copied into latent_buffer.
SaveLatent_skipped(t) ==
    /\ ~crashed
    /\ pc[t] = "loop"
    /\ i[t] >= steps[t]
    /\ Goto(t, "unload_dit")
    /\ UNCHANGED <<outside, g_last_error, err, stagevars, sharedvars, localvars,
                   wav_written, crashed, faults>>

SaveLatent(t) ==
    /\ ~crashed
    /\ pc[t] = "loop"
    /\ i[t] >= steps[t]
    /\ latent_buffer' = [latent_buffer EXCEPT ![t] = dit_x_num_elems[t]]
    /\ Goto(t, "unload_dit")
    /\ UNCHANGED <<outside, g_last_error, err, stagevars, sharedvars, steps, i,
                   t5_crossattn_out_id, t5_globalcond_out_id, dit_x_num_elems,
                   ae_in_elems, crossattn_buffer, globalcond_buffer, invoked,
                   wav_written, crashed, faults>>

\* line 1233
UnloadDiT(t) ==
    /\ ~crashed
    /\ pc[t] = "unload_dit"
    /\ unloadDiT
    /\ Goto(t, "dit_done")
    /\ UNCHANGED <<outside, g_last_error, err, t5vars, aevars, sharedvars, localvars,
                   wav_written, crashed, faults>>

\* lines 1235-1246
StoreProgressDiT(t) ==
    /\ ~crashed
    /\ pc[t] = "dit_done"
    /\ crossattn_buffer' = [crossattn_buffer EXCEPT ![t] = 0]
    /\ globalcond_buffer' = [globalcond_buffer EXCEPT ![t] = 0]
    /\ progress' = Frac(85, 100)
    /\ Goto(t, "check_ae")
    /\ UNCHANGED <<outside, g_last_error, err, stagevars, cancelled, steps, i,
                   latent_buffer, t5_crossattn_out_id, t5_globalcond_out_id,
                   dit_x_num_elems, ae_in_elems, invoked, wav_written, crashed, faults>>

\* lines 1248-1251
CheckCancelAutoEncoder(t) ==
    /\ ~crashed
    /\ pc[t] = "check_ae"
    /\ IF CancelSeen
       THEN set_error(t, Cancelled) /\ Goto(t, "fail")
       ELSE no_error /\ Goto(t, "load_ae")
    /\ UNCHANGED <<outside, stagevars, sharedvars, localvars, wav_written, crashed, faults>>

\* ---- Phase 3: AutoEncoder decode
AutoEncoderModels == [in_elems : 1..MaxElems]

\* lines 1255-1257
LoadAutoEncoder(t) ==
    /\ ~crashed
    /\ pc[t] = "load_ae"
    /\ \E o \in LoadOutcomes :
        /\ ~loadAutoEncoder_ret(o) => MayFail
        /\ Count(~loadAutoEncoder_ret(o))
        /\ loadAutoEncoder(o)
        /\ IF loadAutoEncoder_ret(o)
           THEN no_error /\ Goto(t, "ae_bind")
           ELSE set_error(t, loadAutoEncoder_error(o)) /\ Goto(t, "fail")
    /\ UNCHANGED <<outside, t5vars, ditvars, sharedvars, localvars, wav_written, crashed>>

\* line 1269
LatentMismatch_truncating(latent_size, in_elems) == latent_size < in_elems

LatentMismatch(latent_size, in_elems) == latent_size # in_elems

\* lines 1259-1281: the size check, the copy into the decoder input, the
\* release of latent_buffer.
AutoEncoderBind_keeping(t) ==
    /\ ~crashed
    /\ pc[t] = "ae_bind"
    /\ \E m \in AutoEncoderModels :
        /\ LatentMismatch(latent_buffer[t], m.in_elems) => MayFail
        /\ Count(LatentMismatch(latent_buffer[t], m.in_elems))
        /\ ae_in_elems' = [ae_in_elems EXCEPT ![t] = m.in_elems]
        /\ IF LatentMismatch(latent_buffer[t], m.in_elems)
           THEN /\ set_error(t, "Size mismatch between latent and AutoEncoder input")
                /\ Goto(t, "fail_ae")
           ELSE /\ no_error
                /\ Goto(t, "ae_invoke")
    /\ UNCHANGED <<outside, stagevars, sharedvars, steps, i, latent_buffer,
                   t5_crossattn_out_id, t5_globalcond_out_id, dit_x_num_elems,
                   crossattn_buffer, globalcond_buffer, invoked, wav_written, crashed>>

AutoEncoderBind(t) ==
    /\ ~crashed
    /\ pc[t] = "ae_bind"
    /\ \E m \in AutoEncoderModels :
        /\ LatentMismatch(latent_buffer[t], m.in_elems) => MayFail
        /\ Count(LatentMismatch(latent_buffer[t], m.in_elems))
        /\ ae_in_elems' = [ae_in_elems EXCEPT ![t] = m.in_elems]
        /\ IF LatentMismatch(latent_buffer[t], m.in_elems)
           THEN /\ set_error(t, "Size mismatch between latent and AutoEncoder input")
                /\ Goto(t, "fail_ae")
                /\ UNCHANGED latent_buffer
           ELSE /\ latent_buffer' = [latent_buffer EXCEPT ![t] = 0]
                /\ no_error
                /\ Goto(t, "ae_invoke")
    /\ UNCHANGED <<outside, stagevars, sharedvars, steps, i, t5_crossattn_out_id,
                   t5_globalcond_out_id, dit_x_num_elems, crossattn_buffer,
                   globalcond_buffer, invoked, wav_written, crashed>>

\* lines 1283-1294
AutoEncoderInvoke(t) ==
    /\ ~crashed
    /\ pc[t] = "ae_invoke"
    /\ invoked' = [invoked EXCEPT ![t].ae = @ + 1]
    /\ \E invoke_ok \in Outcomes :
        /\ Count(~invoke_ok)
        /\ IF ~invoke_ok
           THEN /\ set_error(t, "AutoEncoder inference failed")
                /\ Goto(t, "fail_ae")
                /\ UNCHANGED progress
           ELSE /\ progress' = Frac(95, 100)
                /\ no_error
                /\ Goto(t, "ae_output")
    /\ UNCHANGED <<outside, stagevars, cancelled, steps, i, latent_buffer,
                   t5_crossattn_out_id, t5_globalcond_out_id, dit_x_num_elems, ae_in_elems,
                   crossattn_buffer, globalcond_buffer, wav_written, crashed>>

\* lines 1296-1316: the output tensor (null unless it is float32) and the trim.
AutoEncoderOutput(t) ==
    /\ ~crashed
    /\ pc[t] = "ae_output"
    /\ \E out_type \in TensorTypes :
        /\ out_type # "float32" => MayFail
        /\ Count(out_type # "float32")
        /\ IF out_type # "float32"
           THEN set_error(t, "AutoEncoder output is NULL") /\ Goto(t, "fail_ae")
           ELSE no_error /\ Goto(t, "save_wav")
    /\ UNCHANGED <<outside, stagevars, sharedvars, localvars, wav_written, crashed>>

\* lines 1318-1323 with save_as_wav, lines 259-297
SaveWav_touching(t) ==
    /\ ~crashed
    /\ pc[t] = "save_wav"
    /\ \E open_ok \in Outcomes :
        /\ Count(~open_ok)
        /\ wav_written' = [wav_written EXCEPT ![t] = TRUE]
        /\ IF ~open_ok
           THEN set_error(t, "Failed to open output file") /\ Goto(t, "fail_ae")
           ELSE no_error /\ Goto(t, "unload_ae")
    /\ UNCHANGED <<outside, stagevars, sharedvars, localvars, crashed>>

SaveWav(t) ==
    /\ ~crashed
    /\ pc[t] = "save_wav"
    /\ \E open_ok \in Outcomes :
        /\ Count(~open_ok)
        /\ IF ~open_ok
           THEN /\ set_error(t, "Failed to open output file")
                /\ Goto(t, "fail_ae")
                /\ UNCHANGED wav_written
           ELSE /\ wav_written' = [wav_written EXCEPT ![t] = TRUE]
                /\ no_error
                /\ Goto(t, "unload_ae")
    /\ UNCHANGED <<outside, stagevars, sharedvars, localvars, crashed>>

\* line 1326
UnloadAutoEncoder(t) ==
    /\ ~crashed
    /\ pc[t] = "unload_ae"
    /\ unloadAutoEncoder
    /\ Goto(t, "store_done")
    /\ UNCHANGED <<outside, g_last_error, err, t5vars, ditvars, sharedvars, localvars,
                   wav_written, crashed, faults>>

\* line 1328
StoreProgressDone(t) ==
    /\ ~crashed
    /\ pc[t] = "store_done"
    /\ progress' = Frac(100, 100)
    /\ Goto(t, "ret_true")
    /\ UNCHANGED <<outside, g_last_error, err, stagevars, cancelled, localvars,
                   wav_written, crashed, faults>>

\* The locals of a call go out of scope when it returns.
ResetLocals(t) ==
    /\ steps' = [steps EXCEPT ![t] = 0]
    /\ i' = [i EXCEPT ![t] = 0]
    /\ latent_buffer' = [latent_buffer EXCEPT ![t] = 0]
    /\ t5_crossattn_out_id' = [t5_crossattn_out_id EXCEPT ![t] = -1]
    /\ t5_globalcond_out_id' = [t5_globalcond_out_id EXCEPT ![t] = -1]
    /\ dit_x_num_elems' = [dit_x_num_elems EXCEPT ![t] = 0]
    /\ ae_in_elems' = [ae_in_elems EXCEPT ![t] = 0]
    /\ crossattn_buffer' = [crossattn_buffer EXCEPT ![t] = 0]
    /\ globalcond_buffer' = [globalcond_buffer EXCEPT ![t] = 0]
    /\ invoked' = [invoked EXCEPT ![t] =
          [t5 |-> 0, dit |-> 0, ae |-> 0, t_in |-> -1, curr_t |-> -1, next_t |-> -1]]

\* line 1331: return JNI_TRUE; the lock_guard releases generation_mutex.
ReturnTrue(t) ==
    /\ ~crashed
    /\ pc[t] = "ret_true"
    /\ generation_mutex' = NoThread
    /\ ret' = [ret EXCEPT ![t] = "true"]
    /\ ResetLocals(t)
    /\ Goto(t, "returned")
    /\ UNCHANGED <<g_last_error, err, handle, try_gpu, stagevars, sharedvars, signalled,
                   wav_written, polled, lm_result, crashed, faults, unit>>

\* Every failure exit after set_error: the unload the exit performs (none
\* after a failed load or a cancel seen between stages), then return
\* JNI_FALSE, which releases generation_mutex.
FailUnload(t) ==
    CASE pc[t] = "fail_t5" -> unloadT5 /\ UNCHANGED <<ditvars, aevars>>
      [] pc[t] = "fail_dit" -> unloadDiT /\ UNCHANGED <<t5vars, aevars>>
      [] pc[t] = "fail_ae" -> unloadAutoEncoder /\ UNCHANGED <<t5vars, ditvars>>
      [] OTHER -> UNCHANGED stagevars

ReturnFalse_holding(t) ==
    /\ ~crashed
    /\ pc[t] \in {"fail", "fail_t5", "fail_dit", "fail_ae"}
    /\ FailUnload(t)
    /\ ret' = [ret EXCEPT ![t] = "false"]
    /\ ResetLocals(t)
    /\ Goto(t, "returned")
    /\ UNCHANGED <<g_last_error, err, handle, try_gpu, sharedvars, signalled, generation_mutex,
                   wav_written, polled, lm_result, crashed, faults, unit>>

ReturnFalse(t) ==
    /\ ~crashed
    /\ pc[t] \in {"fail", "fail_t5", "fail_dit", "fail_ae"}
    /\ FailUnload(t)
    /\ generation_mutex' = NoThread
    /\ ret' = [ret EXCEPT ![t] = "false"]
    /\ ResetLocals(t)
    /\ Goto(t, "returned")
    /\ UNCHANGED <<g_last_error, err, handle, try_gpu, sharedvars, signalled,
                   wav_written, polled, lm_result, crashed, faults, unit>>

\* ------------------------------------------------- the other entry points
\* lines 1334-1339: the caller of a returned generate reads the last error.
GetLastError(t) ==
    /\ ~crashed
    /\ pc[t] = "returned"
    /\ Goto(t, "idle")
    /\ ret' = [ret EXCEPT ![t] = "none"]
    /\ err' = [err EXCEPT ![t] = NoError]
    /\ UNCHANGED <<g_last_error, handle, try_gpu, stagevars, sharedvars, generation_mutex,
                   localvars, signalled, wav_written, polled, lm_result, crashed, faults, unit>>

\* The positions of a call after its reset of progress (line 832).
AfterReset == PipelinePcs \ {"store_progress"}

\* lines 1341-1348
GetProgress ==
    /\ ~crashed
    /\ \E handle_ptr \in {"null", handle} :
        polled' = IF handle_ptr = "null"
                  THEN <<Frac(0, 100), FALSE>>
                  ELSE <<progress, \E t \in Threads : pc[t] \in AfterReset>>
    /\ UNCHANGED <<g_last_error, handle, try_gpu, stagevars, sharedvars, generation_mutex,
                   pc, localvars, ret, err, signalled, wav_written, lm_result, crashed, faults, unit>>

\* lines 1350-1358
Cancel ==
    /\ ~crashed
    /\ handle = "live"
    /\ cancelled' = TRUE
    /\ signalled' = [t \in Threads |-> signalled[t] \/ pc[t] \in BeforeLastCheckpoint]
    /\ UNCHANGED <<g_last_error, handle, try_gpu, stagevars, progress, generation_mutex,
                   pc, localvars, ret, err, wav_written, polled, lm_result, crashed, faults, unit>>

\* ---------------------------------------------------------------- system
Generate(t) ==
    \/ Enter(t) \/ Lock(t) \/ StoreProgressZero(t) \/ StoreCancelledFalse(t)
    \/ GetStrings(t)
    \/ LoadT5(t) \/ T5Bind(t) \/ T5Invoke(t) \/ UnloadT5(t) \/ StoreProgressT5(t)
    \/ CheckCancelDiT(t)
    \/ LoadDiT(t) \/ DiTBind(t) \/ LoopCheck(t) \/ DiTInvoke(t) \/ SaveLatent(t)
    \/ UnloadDiT(t) \/ StoreProgressDiT(t)
    \/ CheckCancelAutoEncoder(t)
    \/ LoadAutoEncoder(t) \/ AutoEncoderBind(t) \/ AutoEncoderInvoke(t)
    \/ AutoEncoderOutput(t) \/ SaveWav(t) \/ UnloadAutoEncoder(t)
    \/ StoreProgressDone(t) \/ ReturnTrue(t) \/ ReturnFalse(t)

\* One generate caller, its getLastError reads, one canceller, from process
\* start, with every failure the environment can inject.
Next ==
    \/ LoadModels
    \/ Generate("A")
    \/ GetLastError("A")
    \/ Cancel

Spec == Init /\ [][Next]_vars

\* The handle is there and the environment's failures are spent: what fails
\* from here on is a cancelled call or a call on a null handle.
InitReady == AfterLoadModels(MaxFaults)

\* One generate caller, one canceller and a getProgress poller.
NextPoll ==
    \/ Generate("A")
    \/ GetLastError("A")
    \/ Cancel
    \/ GetProgress

SpecPoll == InitReady /\ [][NextPoll]_vars

\* Two generate callers on the one handle, their getLastError reads and one
\* canceller.
NextConc ==
    \/ \E t \in Threads : Generate(t)
    \/ \E t \in Threads : GetLastError(t)
    \/ Cancel

SpecConc == InitReady /\ [][NextConc]_vars

\* --------------------------------------------------------------- release
\* lines 1360-1369: a non-null handle is deleted at once; generation_mutex
\* is not taken and no running or waiting generate call is looked for.  A
\* null handle is left alone.  The freed memory keeps what it held until it
\* is reused.
Release ==
    /\ ~crashed
    /\ handle = "live"
    /\ handle' = "freed"
    /\ UNCHANGED <<g_last_error, try_gpu, stagevars, sharedvars, generation_mutex,
                   pc, localvars, ret, err, signalled, wav_written, polled, lm_result,
                   crashed, faults, unit>>

\* lines 831-1328 on a deleted StableAudioHandle: every read of a field, the
\* lock and its release at return included, is a use after free.  The call
\* either goes on with the stale contents (its ordinary step) or the process
\* dies.
UseFreedHandle(t) ==
    /\ ~crashed
    /\ handle = "freed"
    /\ pc[t] \in PipelinePcs \cup {"lock"}
    /\ crashed' = TRUE
    /\ UNCHANGED <<g_last_error, handle, try_gpu, stagevars, sharedvars, generation_mutex,
                   pc, localvars, ret, err, signalled, wav_written, polled, lm_result,
                   faults, unit>>

\* One generate caller, one canceller and one thread that releases the
\* handle.
NextRelease ==
    \/ Generate("A")
    \/ Cancel
    \/ Release
    \/ UseFreedHandle("A")

SpecRelease == InitReady /\ [][NextRelease]_vars

\* ============================================================ properties
\* Steps of one call, as seen in a pair of states.
Moves(t) == pc'[t] # pc[t]
ReturnsFalse(t) == Moves(t) /\ pc'[t] = "returned" /\ ret'[t] = "false"
FailPcs == {"fail", "fail_t5", "fail_dit", "fail_ae"}

\* C1 (Spec): at every instant of a generate call, on the success path and
\* on every failure and cancellation path, at most one of the three stages
\* T5, DiT, AutoEncoder holds a model or an interpreter.
C1_AtMostOneStageLoaded ==
    Cardinality({s \in {"T5", "DiT", "AutoEncoder"} :
                    \/ s = "T5" /\ T5Loaded
                    \/ s = "DiT" /\ DiTLoaded
                    \/ s = "AutoEncoder" /\ AutoEncoderLoaded}) <= 1

\* The diffuser is loaded, the call has failed in it and has not yet unloaded it.
C1_Witness ==
    /\ pc["A"] = "fail_dit"
    /\ DiTLoaded /\ ~T5Loaded /\ ~AutoEncoderLoaded
    /\ err["A"] = "DiT inference failed at step"

\* C2 (Spec): whenever generate returns failure, for any reason, all three
\* stages are Unloaded (model, interpreter and delegates released) in the
\* state in which it returns.
C2_FailureReturnsUnloaded ==
    [][\A t \in Threads :
          ReturnsFalse(t) => (T5Unloaded /\ DiTUnloaded /\ AutoEncoderUnloaded)']_vars

\* A call has returned failure from the decoder stage, whose output file
\* could not be opened.
C2_Witness ==
    /\ pc["A"] = "returned" /\ ret["A"] = "false"
    /\ err["A"] = "Failed to open output file"
    /\ T5Unloaded /\ DiTUnloaded /\ AutoEncoderUnloaded

\* C3 (SpecConc): for one handle at most one generate call executes the
\* pipeline at a time.  A call inside the pipeline holds the generation
\* lock; a call that finds the lock held stays where it is; and every load,
\* unload, progress write and clearing of the cancel flag is a step of the
\* call that holds the lock.
C3_SingleGenerationInFlight ==
    /\ [](\A t \in Threads : pc[t] \in PipelinePcs => generation_mutex = t)
    /\ [][\A t \in Threads :
             (pc[t] = "lock" /\ generation_mutex \notin {NoThread, t}) => ~Moves(t)]_vars
    /\ [][(stagevars' # stagevars \/ progress' # progress \/ (cancelled /\ ~cancelled'))
             => \E t \in Threads :
                   generation_mutex = t /\ pc[t] \in PipelinePcs /\ Moves(t)]_vars

\* B has issued generate and waits for the lock while A is diffusing.
C3_Witness ==
    /\ pc["B"] = "lock"
    /\ pc["A"] = "dit_invoke"
    /\ generation_mutex = "A"
    /\ DiTLoaded

\* C4 (Spec): with the cancel flag set when the loop is about to start step
\* k+1 (k < steps), the call does not invoke the diffuser again: it reports
\* "Generation cancelled", not an invocation failure, and returns failure
\* with the diffuser and the encoder Unloaded.  The flag is not cleared
\* during the diffusion loop, so a cancel set while a step runs is seen when
\* that step is over: at most that one step completes.
C4_CancelBetweenSteps ==
    /\ [][\A t \in Threads :
             (pc[t] = "loop" /\ i[t] < steps[t] /\ cancelled /\ Moves(t))
                => /\ pc'[t] = "fail_dit"
                   /\ err'[t] = Cancelled
                   /\ g_last_error' = Cancelled]_vars
    /\ [][\A t \in Threads :
             (pc[t] = "fail_dit" /\ err[t] = Cancelled /\ Moves(t))
                => /\ ReturnsFalse(t)
                   /\ err'[t] = Cancelled
                   /\ g_last_error' = Cancelled
                   /\ DiTUnloaded' /\ T5Unloaded']_vars
    /\ [][\A t \in Threads :
             (pc[t] \in {"loop", "dit_invoke"} /\ cancelled)
                => /\ cancelled'
                   /\ i'[t] <= i[t] + 1
                   /\ pc[t] = "dit_invoke" => pc'[t] \in {"dit_invoke", "loop", "fail_dit"}]_vars

\* Cancelled after step 1 of a 2-step request, seen before step 2.
C4_Witness ==
    /\ pc["A"] = "fail_dit"
    /\ err["A"] = Cancelled
    /\ steps["A"] = 2 /\ i["A"] = 1
    /\ DiTLoaded

\* The positions at which the five steps of generate start: 1 encode,
\* 2 diffuse, 3 decode, 4 trim, 5 write the audio file.  Steps 2 and 3 start
\* with their checkpoint.
StepStarts == {"load_t5", "check_dit", "check_ae", "ae_output", "save_wav"}
Checkpoints == {"check_dit", "loop", "check_ae"}

\* C5 (Spec), as the code has it: generate checks the cancel flag at three
\* checkpoints only: after the encoder is unloaded and before the diffuser
\* is loaded, before each diffusion step, and after the diffuser is unloaded
\* and before the decoder is loaded.  A set flag seen there ends the call
\* with "Generation cancelled"; that error is raised nowhere else.  Before
\* step 1 the flag is cleared, not checked, and steps 1 (encode), 4 (trim)
\* and 5 (write) start with the flag set and do not end in cancellation.
C5_CheckpointsOnly ==
    /\ [][\A t \in Threads :
             (/\ pc[t] \in Checkpoints
              /\ pc[t] = "loop" => i[t] < steps[t]
              /\ cancelled
              /\ Moves(t))
                => (pc'[t] \in FailPcs /\ err'[t] = Cancelled)]_vars
    /\ [][\A t \in Threads :
             (err'[t] = Cancelled /\ err[t] # Cancelled)
                => (pc[t] \in Checkpoints /\ cancelled)]_vars
    /\ [][\A t \in Threads :
             (pc[t] = "store_cancelled" /\ Moves(t)) => ~cancelled']_vars
    /\ [][\A t \in Threads :
             (pc[t] = "save_wav" /\ cancelled /\ Moves(t))
                => (wav_written'[t] \/ err'[t] = "Failed to open output file")]_vars

\* The flag is set and the call has written the audio file all the same.
C5_Witness ==
    /\ cancelled
    /\ pc["A"] = "unload_ae"
    /\ wav_written["A"]

\* C5 as the specification states it: the flag is checked before each of
\* the five steps, so a step that is about to start with the flag set does
\* not start and the call ends in cancellation.
C5_CheckedBeforeEveryStep ==
    [][\A t \in Threads :
          (pc[t] \in StepStarts /\ cancelled /\ Moves(t))
             => (pc'[t] \in FailPcs /\ err'[t] = Cancelled)]_vars

\* C6 (SpecConc) as the specification states it: a cancel signalled after
\* generate was entered, the wait for the generation lock included, and
\* before the call's last checkpoint is not lost: the call does not return
\* success.
C6_CancelNeverLost ==
    \A t \in Threads : (pc[t] = "returned" /\ signalled[t]) => ret[t] # "true"

\* C7 (Spec): every failure return of generate and of loadModels has set
\* the shared last-error string to the message of that failure: in the
\* state in which the call returns, last-error is the message this call
\* passed to set_error.
C7_FailureSetsLastError ==
    /\ [][\A t \in Threads :
             ReturnsFalse(t) => (err'[t] # NoError /\ g_last_error' = err'[t])]_vars
    /\ [][(lm_result' # lm_result /\ lm_result'[1] = "null")
             => (lm_result'[2] # NoError /\ g_last_error' = lm_result'[2])]_vars

\* generate has returned failure after a diffuser load that could not
\* allocate its tensors.
C7_Witness ==
    /\ pc["A"] = "returned" /\ ret["A"] = "false"
    /\ err["A"] = "Failed to allocate DiT tensors"
    /\ g_last_error = "Failed to allocate DiT tensors"

\* C8 (SpecConc) as the specification states it: the value a caller reads
\* with getLastError after its generate call returned failure is that of
\* its own call, so it reads "Generation cancelled" exactly when its own
\* call ended at a positive cancel check.
C8_CallerReadsOwnError ==
    [][\A t \in Threads :
          (pc[t] = "returned" /\ pc'[t] = "idle" /\ ret[t] = "false")
             => ((g_last_error = Cancelled) <=> (err[t] = Cancelled))]_vars

\* C9 (SpecPoll): progress and every value polled lie in [0,1]; within a
\* call progress changes only upwards, its reset to 0 at the start of the
\* call aside; and of two successive reads of a poller that both fall into
\* the call after that reset, the later is not smaller.
C9_ProgressMonotone ==
    /\ [](/\ Leq(Frac(0, 1), progress) /\ Leq(progress, Frac(1, 1))
          /\ Leq(Frac(0, 1), polled[1]) /\ Leq(polled[1], Frac(1, 1)))
    /\ [][progress' # progress
             => \/ Less(progress, progress')
                \/ \E t \in Threads : pc[t] = "store_progress" /\ Moves(t)]_vars
    /\ [][(polled[2] /\ polled'[2]) => Leq(polled[1], polled'[1])]_vars

\* The poller has read the progress of the first of two diffusion steps.
C9_Witness ==
    /\ polled = <<step_progress(0, 2), TRUE>>
    /\ steps["A"] = 2
    /\ pc["A"] = "dit_invoke"

\* C10 (Spec): a latent buffer whose element count differs from that of
\* the decoder input, in either direction, ends the call with the size
\* mismatch failure: the latent is left as it is, the decoder is invoked
\* only on equal counts, no audio file is written and the decoder is
\* Unloaded when the call returns.
C10_LatentMismatchFatal ==
    /\ [][\A t \in Threads :
             (pc[t] = "ae_bind" /\ Moves(t) /\ latent_buffer[t] # ae_in_elems'[t])
                => /\ pc'[t] = "fail_ae"
                   /\ err'[t] = "Size mismatch between latent and AutoEncoder input"
                   /\ latent_buffer'[t] = latent_buffer[t]]_vars
    /\ [][\A t \in Threads :
             (/\ pc[t] = "fail_ae"
              /\ err[t] = "Size mismatch between latent and AutoEncoder input"
              /\ Moves(t))
                => /\ ReturnsFalse(t)
                   /\ AutoEncoderUnloaded'
                   /\ ~wav_written'[t]]_vars
    /\ [](\A t \in Threads :
             pc[t] \in {"ae_invoke", "ae_output", "save_wav"}
                => ae_in_elems[t] = dit_x_num_elems[t])

\* The latent holds one element more than the decoder input takes.
C10_Witness ==
    /\ pc["A"] = "fail_ae"
    /\ err["A"] = "Size mismatch between latent and AutoEncoder input"
    /\ latent_buffer["A"] = ae_in_elems["A"] + 1
    /\ AutoEncoderLoaded

\* C23 (Spec): loadModels fails fast on a missing resource.  Whenever one of
\* the three model files or the tokenizer file is absent the call is an
\* error; a call that fails returns the null handle with its message in the
\* last error and leaves no live handle; no call, failed or successful,
\* loads a model: all three stages are Unloaded when it returns.
C23_LoadModelsFailsFast ==
    /\ \A dir_null, str_ok, t5_file, dit_file, ae_file, tok_ok \in BOOLEAN :
          (~t5_file \/ ~dit_file \/ ~ae_file \/ ~tok_ok)
             => LoadModelsError(dir_null, str_ok, t5_file, dit_file, ae_file, tok_ok)
                    # NoError
    /\ [][lm_result' # lm_result =>
             /\ UNCHANGED stagevars
             /\ T5Unloaded' /\ DiTUnloaded' /\ AutoEncoderUnloaded'
             /\ lm_result'[1] = "null" =>
                    /\ handle' = "null"
                    /\ lm_result'[2] # NoError
                    /\ g_last_error' = lm_result'[2]
             /\ lm_result'[1] = "handle" => handle' = "live"]_vars

\* loadModels found the three model files and no tokenizer.
C23_Witness ==
    /\ lm_result = <<"null", "Failed to load tokenizer">>
    /\ g_last_error = "Failed to load tokenizer"
    /\ handle = "null"

\* C25 (Spec): a stage's tensors are bound, its graph is invoked and its
\* outputs are read only while the stage is Ready.  The encoder's tensors
\* are used from the binding of its inputs to the capture of its outputs,
\* the diffuser's from its binding to the copy of the latent, the decoder's
\* from its binding to the end of save_as_wav, which reads the two channels
\* in the decoder's output tensor; each of these positions lies after the
\* stage's successful load and before its unload.
C25_TensorsUsedWhileReady ==
    \A t \in Threads :
        /\ pc[t] \in {"t5_bind", "t5_invoke", "t5_unload"} => T5Ready
        /\ pc[t] \in {"dit_bind", "loop", "dit_invoke", "unload_dit"} => DiTReady
        /\ pc[t] \in {"ae_bind", "ae_invoke", "ae_output", "save_wav", "unload_ae"}
              => AutoEncoderReady

\* save_as_wav is about to read the decoder's output tensor.
C25_Witness ==
    /\ pc["A"] = "save_wav"
    /\ AutoEncoderReady
    /\ T5Unloaded /\ DiTUnloaded

\* C26 (Spec): a call that is about to return success has invoked the encoder
\* exactly once, the diffuser exactly `steps` times and the decoder exactly
\* once; the encoder is invoked before any other interpreter, a diffuser
\* invocation follows the encoder's and precedes the decoder's, and the decoder
\* is invoked after all `steps` diffuser invocations; the k-th diffuser
\* invocation (k = 0..steps-1) runs with t_buffer[k] in the time input and the
\* sampler update after it takes t_buffer[k] and t_buffer[k + 1].
C26_InvocationOrder ==
    /\ [](\A t \in Threads : pc[t] = "ret_true" =>
            invoked[t].t5 = 1 /\ invoked[t].dit = steps[t] /\ invoked[t].ae = 1)
    /\ [][\A t \in Threads :
            /\ invoked'[t].t5 > invoked[t].t5 =>
                  invoked[t].t5 = 0 /\ invoked[t].dit = 0 /\ invoked[t].ae = 0
            /\ invoked'[t].dit > invoked[t].dit =>
                  /\ invoked[t].t5 = 1 /\ invoked[t].ae = 0
                  /\ invoked[t].dit < steps[t]
                  /\ invoked'[t].t_in = invoked[t].dit
                  /\ pc'[t] = "loop" =>
                        /\ invoked'[t].curr_t = invoked[t].dit
                        /\ invoked'[t].next_t = invoked[t].dit + 1
            /\ invoked'[t].curr_t # invoked[t].curr_t /\ pc'[t] # "returned" =>
                  invoked'[t].dit > invoked[t].dit
            /\ invoked'[t].ae > invoked[t].ae =>
                  invoked[t].t5 = 1 /\ invoked[t].dit = steps[t] /\ invoked[t].ae = 0]_vars

C26_Witness ==
    /\ pc["A"] = "ret_true"
    /\ steps["A"] = MaxSteps
    /\ invoked["A"] = [t5 |-> 1, dit |-> MaxSteps, ae |-> 1, t_in |-> MaxSteps - 1,
                       curr_t |-> MaxSteps - 1, next_t |-> MaxSteps]

\* C27 as stated (Spec): while the output file is being written the decoder has
\* been unloaded, and so have the other two stages.
C27_NoStageLoadedWhileWriting ==
    \A t \in Threads :
        pc[t] = "save_wav" => T5Unloaded /\ DiTUnloaded /\ AutoEncoderUnloaded

\* C27 (Spec): the output file is written from the decoder's own output tensor
\* while the decoder is still loaded and the encoder and the diffuser are
\* unloaded; the decoder is unloaded right after the write, whether the write
\* succeeded or failed, and is unloaded before progress is set to 1.0 and
\* before the call returns.
C27_WrittenFromLoadedDecoder ==
    /\ [](\A t \in Threads :
            /\ pc[t] = "save_wav" => AutoEncoderReady /\ T5Unloaded /\ DiTUnloaded
            /\ pc[t] = "unload_ae" => wav_written[t] /\ AutoEncoderReady
            /\ pc[t] \in {"store_done", "ret_true"} => wav_written[t] /\ AutoEncoderUnloaded)
    /\ [][\A t \in Threads :
            /\ (pc[t] = "save_wav" /\ Moves(t)) =>
                  /\ pc'[t] \in {"unload_ae", "fail_ae"}
                  /\ wav_written'[t] <=> pc'[t] = "unload_ae"
                  /\ AutoEncoderReady'
            /\ (pc[t] \in {"unload_ae", "fail_ae"} /\ Moves(t)) => AutoEncoderUnloaded']_vars

C27_Witness ==
    /\ pc["A"] = "store_done"
    /\ wav_written["A"]
    /\ AutoEncoderUnloaded

\* C28 (Spec): the step that binds the diffuser's inputs leaves both
\* conditioning buffers empty, so they are empty before the first diffuser
\* invocation and from then on until the call returns; the step that copies
\* the latent into the decoder's input leaves the latent buffer empty, so it is
\* empty when the decoder is invoked and afterwards.
C28_BuffersReleased ==
    /\ [](\A t \in Threads :
            /\ (pc[t] \in {"loop", "dit_invoke"} \/ invoked[t].dit > 0 \/ invoked[t].ae > 0)
                  => crossattn_buffer[t] = 0 /\ globalcond_buffer[t] = 0
            /\ (pc[t] = "ae_invoke" \/ invoked[t].ae > 0) => latent_buffer[t] = 0)
    /\ [][\A t \in Threads :
            /\ (pc[t] = "dit_bind" /\ pc'[t] = "loop") =>
                  crossattn_buffer[t] > 0 /\ crossattn_buffer'[t] = 0 /\ globalcond_buffer'[t] = 0
            /\ (pc[t] = "ae_bind" /\ pc'[t] = "ae_invoke") =>
                  latent_buffer[t] > 0 /\ latent_buffer'[t] = 0]_vars

C28_Witness ==
    /\ pc["A"] = "ae_invoke"
    /\ invoked["A"].dit = MaxSteps
    /\ ae_in_elems["A"] = MaxElems
    /\ latent_buffer["A"] = 0
    /\ crossattn_buffer["A"] = 0
    /\ globalcond_buffer["A"] = 0

\* C29 (Spec): when generate is about to unload the encoder after a successful
\* invocation, the cross-attention buffer holds the encoder's output, and so
\* does the global-conditioning buffer if the encoder has that output; when it
\* is about to unload the diffuser after the loop, the latent buffer holds the
\* diffuser's state after the last sampler update.  A buffer is filled only by
\* the step that invoked the encoder, or after the last diffusion step, while
\* the producing stage is still loaded.
C29_OutputsCapturedBeforeUnload ==
    /\ [](\A t \in Threads :
            /\ pc[t] = "t5_unload" =>
                  /\ T5Ready /\ invoked[t].t5 = 1
                  /\ crossattn_buffer[t] > 0
                  /\ t5_globalcond_out_id[t] >= 0 => globalcond_buffer[t] > 0
            /\ pc[t] = "unload_dit" =>
                  /\ DiTReady
                  /\ invoked[t].dit = steps[t] /\ invoked[t].next_t = steps[t]
                  /\ latent_buffer[t] = dit_x_num_elems[t] /\ latent_buffer[t] > 0)
    /\ [][\A t \in Threads :
            /\ (crossattn_buffer'[t] > crossattn_buffer[t]
                    \/ globalcond_buffer'[t] > globalcond_buffer[t]) =>
                  T5Ready /\ invoked'[t].t5 = invoked[t].t5 + 1 /\ pc'[t] = "t5_unload"
            /\ latent_buffer'[t] > latent_buffer[t] =>
                  DiTReady /\ invoked[t].dit = steps[t] /\ pc'[t] = "unload_dit"
            /\ (pc[t] = "t5_unload" /\ Moves(t)) => T5Unloaded'
            /\ (pc[t] = "unload_dit" /\ Moves(t)) =>
                  DiTUnloaded' /\ latent_buffer'[t] = latent_buffer[t]]_vars

C29_Witness ==
    /\ pc["A"] = "unload_dit"
    /\ DiTReady
    /\ steps["A"] = MaxSteps
    /\ invoked["A"].next_t = MaxSteps
    /\ latent_buffer["A"] = MaxElems

\* C30 (Spec): from its reset at the start of a call until the encoder has been
\* unloaded progress is at most 0.10; it is 0.10 from there to the loop, and
\* 0.10 + 0.75 * k / steps in the loop after k completed diffusion steps, which
\* is 0.85 after the last and up to the decoder's invocation; it becomes 0.95
\* only in the step in which the decoder's invocation succeeded and 1.0 only in
\* the last step of a call that then returns true; a call that holds the
\* handle and returns false never leaves progress at 1.0.
C30_ProgressTracksPhase ==
    /\ [](\A t \in Threads :
            /\ pc[t] \in {"store_cancelled", "strings", "load_t5", "t5_bind", "t5_invoke",
                           "t5_unload", "t5_done"} => Leq(progress, Frac(10, 100))
            /\ pc[t] \in {"check_dit", "load_dit", "dit_bind"} => progress = Frac(10, 100)
            /\ pc[t] \in {"loop", "dit_invoke", "unload_dit"} =>
                  /\ i[t] <= steps[t]
                  /\ progress = Frac(10 * steps[t] + 75 * i[t], 100 * steps[t])
            /\ pc[t] \in {"unload_dit", "dit_done", "check_ae", "load_ae", "ae_bind",
                           "ae_invoke"} => progress = Frac(85, 100)
            /\ pc[t] \in {"ae_output", "save_wav", "unload_ae", "store_done"} =>
                  progress = Frac(95, 100)
            /\ pc[t] = "ret_true" => progress = Frac(100, 100)
            /\ pc[t] \in FailPcs => progress # Frac(100, 100))
    /\ [][/\ (progress' = Frac(95, 100) /\ progress # Frac(95, 100)) =>
                \E t \in Threads : pc[t] = "ae_invoke" /\ pc'[t] = "ae_output"
          /\ (progress' = Frac(100, 100) /\ progress # Frac(100, 100)) =>
                \E t \in Threads : pc[t] = "store_done" /\ pc'[t] = "ret_true"
          /\ \A t \in Threads :
                /\ (generation_mutex = t /\ ret'[t] = "false") => progress' # Frac(100, 100)
                /\ (generation_mutex = t /\ ret'[t] = "true") => progress' = Frac(100, 100)]_vars

C30_Witness ==
    /\ pc["A"] = "dit_invoke"
    /\ steps["A"] = MaxSteps
    /\ i["A"] = MaxSteps - 1
    /\ progress = Frac(10 * MaxSteps + 75 * (MaxSteps - 1), 100 * MaxSteps)

\* C36 (Spec): the output file is written only by the step that follows the
\* encoder's invocation, all `steps` diffuser invocations, the decoder's
\* invocation and the last cancel checkpoint, each having succeeded; a call
\* that has not reached that step, or that fails or is cancelled before or in
\* it, has not written the file, up to and including its return of false.
C36_FileWrittenLast ==
    /\ [](\A t \in Threads :
            /\ wav_written[t] =>
                 pc[t] \in {"unload_ae", "store_done", "ret_true", "returned", "idle"}
            /\ pc[t] \in FailPcs => ~wav_written[t]
            /\ ret[t] = "false" => ~wav_written[t])
    /\ [][\A t \in Threads :
            (wav_written'[t] /\ ~wav_written[t]) =>
                /\ pc[t] = "save_wav" /\ pc'[t] = "unload_ae"
                /\ pc[t] \notin BeforeLastCheckpoint
                /\ invoked[t].t5 = 1 /\ invoked[t].dit = steps[t] /\ invoked[t].ae = 1
                /\ progress = Frac(95, 100)]_vars

\* A call cancelled in the diffusion loop has returned false and left the
\* file alone.
C36_Witness ==
    /\ pc["A"] = "returned"
    /\ ret["A"] = "false"
    /\ err["A"] = Cancelled
    /\ ~wav_written["A"]

\* C37 (SpecRelease): release destroys the handle only while no generate
\* call on it is in progress or waiting for the generation lock.
C37_ReleaseWaitsForGenerate ==
    [][(handle = "live" /\ handle' = "freed") =>
           \A t \in Threads : pc[t] \notin PipelinePcs \cup {"lock"}]_vars

\* C38 (SpecConc): a cancel that is not meant for a call does not cancel it.
\* The call clears the flag in its second step under the generation lock,
\* before any checkpoint; past that step the flag is set only if cancel was
\* called since this call was entered, and a call ends in "Generation
\* cancelled" only then.  A flag left set while no call was running or
\* pending, or set after the last checkpoint of the call before, is cleared
\* unseen.
C38_StaleCancelCleared ==
    /\ [](\A t \in Threads :
            /\ (/\ pc[t] \in BeforeLastCheckpoint \ {"lock", "store_progress", "store_cancelled"}
                /\ cancelled) => signalled[t]
            /\ err[t] = Cancelled => signalled[t])
    /\ [][\A t \in Threads :
            /\ (pc[t] = "lock" /\ Moves(t)) => pc'[t] = "store_progress"
            /\ (pc[t] = "store_progress" /\ Moves(t)) => pc'[t] = "store_cancelled"
            /\ (pc[t] = "store_cancelled" /\ Moves(t)) =>
                  (generation_mutex = t /\ ~cancelled' /\ pc'[t] \notin Checkpoints)]_vars

\* B's call was cancelled and left the flag set; A's call, entered after
\* that cancel, has cleared the flag and returned success.
C38_Witness ==
    /\ pc["B"] = "returned" /\ err["B"] = Cancelled
    /\ pc["A"] = "returned" /\ ret["A"] = "true"
    /\ ~signalled["A"]
    /\ ~cancelled

\* C39 (Spec): success never touches the last-error string.  The string
\* changes only in a failing step of generate or a failing loadModels, and
\* then to that failure's message, never to the empty string; a generate
\* call that returns true has called set_error nowhere; a loadModels that
\* returns a handle, the return of true and getLastError itself leave the
\* string as it was, so a read after a success returns the message of the
\* last failure before it.
C39_SuccessKeepsLastError ==
    /\ [](\A t \in Threads : ret[t] = "true" => err[t] = NoError)
    /\ [][g_last_error' # g_last_error =>
            /\ g_last_error' # NoError
            /\ \/ \E t \in Threads :
                     /\ Moves(t)
                     /\ pc'[t] \in FailPcs \/ ReturnsFalse(t)
                     /\ err'[t] = g_last_error'
               \/ lm_result' = <<"null", g_last_error'>>]_vars
    /\ [][(lm_result' # lm_result /\ lm_result'[1] = "handle")
            => g_last_error' = g_last_error]_vars
    /\ [][\A t \in Threads :
            (Moves(t) /\ pc'[t] \in {"returned", "idle"} /\ ret'[t] # "false")
               => g_last_error' = g_last_error]_vars

\* A call has returned success and the last error is still that of the
\* cancelled call before it.
C39_Witness ==
    /\ pc["A"] = "returned" /\ ret["A"] = "true"
    /\ err["A"] = NoError
    /\ g_last_error = Cancelled

\* ------------------------------------------------------------- liveness
\* Two concurrent requests: each thread calls generate once, a canceller may
\* signal at any time, and the environment may inject a failure.
NextLive ==
    \/ \E t \in Threads : Generate(t)
    \/ Cancel

\* loadModels has returned a handle made without GPU (useGpu false).
InitLive == AfterLoadModels(0) /\ ~try_gpu

\* Every load and every Invoke terminates
\* and a runnable thread is scheduled: a call that has been called and has
\* not returned takes its next step (the lock or a step under it) when it
\* can.  Nothing obliges a caller to call or a canceller to cancel.
SpecLive ==
    /\ InitLive
    /\ [][NextLive]_vars
    /\ \A t \in Threads : WF_vars(pc[t] \in PipelinePcs \cup {"lock"} /\ Generate(t))

pipelinevars == <<handle, try_gpu, sharedvars, generation_mutex, pc, localvars, ret, err,
                  signalled, wav_written, polled, lm_result, crashed, faults>>

\* A helper function is applied once to each input, from the state in which
\* no lone call has been made.
Fresh == unit = <<"none">>

\* ------------------------------------------------- conditioning buffers
\* The elements of a float buffer are symbols: <<"data", k>> is element k of
\* the captured encoder output, "zero" is 0.0f, "stale" is whatever the
\* memory of a tensor held before the code wrote to it.
CondBuffer(n) == [k \in 1..n |-> <<"data", k>>]

\* An input tensor of the diffuser after AllocateTensors (line 531): m
\* elements the code has not written yet.
FreshTensors(m) == [1..m -> {"zero", "stale"}]

\* lines 1131-1153: cross-attention, copy then memset of the rest.
bind_crossattn(buffer, tensor) ==
    LET expected_size == Len(tensor)
        copy_size == Min(Len(buffer), expected_size)
    IN  [k \in 1..expected_size |->
            IF k <= copy_size THEN buffer[k] ELSE "zero"]

\* lines 1155-1170: global conditioning, copy only.
bind_globalcond(buffer, tensor) ==
    LET expected_size == Len(tensor)
        copy_size == Min(Len(buffer), expected_size)
    IN  [k \in 1..expected_size |->
            IF k <= copy_size THEN buffer[k] ELSE tensor[k]]

\* Both bindings of one captured buffer of n elements to a tensor of m.
BindConditioning ==
    /\ Fresh
    /\ \E n \in 0..MaxElems, m \in 0..MaxElems :
         \E tensor \in FreshTensors(m) :
            unit' = <<"bind_conditioning", n, m,
                      bind_crossattn(CondBuffer(n), tensor),
                      bind_globalcond(CondBuffer(n), tensor)>>
    /\ UNCHANGED <<pipelinevars, g_last_error, stagevars>>

\* C11 (SpecCalc) as the specification states it: for the cross-attention
\* and for the global conditioning tensor alike, a captured buffer of n
\* elements bound to an input of m elements gives the first min(n, m)
\* elements of the buffer followed by zeros.
C11_TruncateOrZeroPad ==
    unit[1] = "bind_conditioning"
        => \A bound \in {unit[4], unit[5]} :
              /\ Len(bound) = unit[3]
              /\ \A k \in 1..Len(bound) :
                    bound[k] = IF k <= unit[2] THEN <<"data", k>> ELSE "zero"

\* C12 (Spec) as the specification states it: a required role that cannot
\* be resolved makes the stage fail to load, so generate never reads through
\* an unresolved slot and never invokes the encoder while its cross-attention
\* output is unresolved.
C12_UnresolvedRoleFailsLoad ==
    /\ ~crashed
    /\ \A t \in Threads : pc[t] = "t5_invoke" => t5_crossattn_out_id[t] >= 0

\* C13 (Spec): the absence of the optional global-conditioning tensor never
\* makes generate fail.  A call whose encoder has no such output leaves the
\* encoder stage unless Invoke itself fails, and goes on to diffusion and
\* decode; a diffuser file whose latent input, time input and output are
\* resolved passes the check of required tensors whether or not it has a
\* global-conditioning input.
C13_GlobalCondOptional ==
    /\ \A m \in DiTModels :
          (dit_x_in_id(m) >= 0 /\ dit_t_in_id(m) >= 0 /\ dit_out_id(m) >= 0)
             => ~DiTRequiredMissing(m)
    /\ [][\A t \in Threads :
             (/\ pc[t] = "t5_invoke"
              /\ t5_crossattn_out_id[t] >= 0
              /\ t5_globalcond_out_id[t] < 0
              /\ Moves(t))
                => (pc'[t] = "t5_unload" \/ err'[t] = "T5 inference failed")]_vars

\* A call whose encoder gave no global conditioning is about to return
\* success.
C13_Witness ==
    /\ pc["A"] = "ret_true"
    /\ t5_crossattn_out_id["A"] >= 0
    /\ t5_globalcond_out_id["A"] < 0
    /\ wav_written["A"]

\* ------------------------------------------- stage methods in any order
\* loadT5 / unloadT5, loadDiT / unloadDiT, loadAutoEncoder /
\* unloadAutoEncoder are public members of StableAudioHandle (lines 355-360).
\* Each action below is one call on the live handle with any outcome of the
\* environment; unit records <<method, returned value, whether the call went
\* past the early return and opened the model file>>.  set_error inside a
\* failed load (lines 375, 394, 425 and their siblings) stores the message.
stage_error(ok, error) == g_last_error' = IF ok THEN g_last_error ELSE error

CallLoadT5 ==
    /\ \E o \in LoadOutcomes :
        /\ loadT5(o)
        /\ stage_error(loadT5_ret(o), loadT5_error(o))
        /\ unit' = <<"loadT5", loadT5_ret(o), ~t5_interpreter, o>>
    /\ UNCHANGED <<pipelinevars, ditvars, aevars>>

CallUnloadT5 ==
    /\ unloadT5
    /\ unit' = <<"unloadT5", TRUE, FALSE>>
    /\ UNCHANGED <<pipelinevars, g_last_error, ditvars, aevars>>

CallLoadDiT ==
    /\ \E o \in LoadOutcomes :
        /\ loadDiT(o)
        /\ stage_error(loadDiT_ret(o), loadDiT_error(o))
        /\ unit' = <<"loadDiT", loadDiT_ret(o), ~dit_interpreter, o>>
    /\ UNCHANGED <<pipelinevars, t5vars, aevars>>

CallUnloadDiT ==
    /\ unloadDiT
    /\ unit' = <<"unloadDiT", TRUE, FALSE>>
    /\ UNCHANGED <<pipelinevars, g_last_error, t5vars, aevars>>

CallLoadAutoEncoder ==
    /\ \E o \in LoadOutcomes :
        /\ loadAutoEncoder(o)
        /\ stage_error(loadAutoEncoder_ret(o), loadAutoEncoder_error(o))
        /\ unit' = <<"loadAutoEncoder", loadAutoEncoder_ret(o), ~autoencoder_interpreter, o>>
    /\ UNCHANGED <<pipelinevars, t5vars, ditvars>>

CallUnloadAutoEncoder ==
    /\ unloadAutoEncoder
    /\ unit' = <<"unloadAutoEncoder", TRUE, FALSE>>
    /\ UNCHANGED <<pipelinevars, g_last_error, t5vars, ditvars>>

NextStage ==
    \/ CallLoadT5
    \/ CallUnloadT5
    \/ CallLoadDiT
    \/ CallUnloadDiT
    \/ CallLoadAutoEncoder
    \/ CallUnloadAutoEncoder

SpecStage == AfterLoadModels(0) /\ [][NextStage]_vars

\* C14 (SpecStage): a load that returned false left its stage Unloaded
\* (model, interpreter and delegates all null), whichever of file open,
\* interpreter build or tensor allocation failed; and the next load of that
\* stage goes past the "already loaded" return and opens the file again.
C14_FailedLoadLeavesUnloaded ==
    /\ [](/\ (unit[1] = "loadT5" /\ ~unit[2]) => T5Unloaded
          /\ (unit[1] = "loadDiT" /\ ~unit[2]) => DiTUnloaded
          /\ (unit[1] = "loadAutoEncoder" /\ ~unit[2]) => AutoEncoderUnloaded)
    /\ [][\A method \in {"loadT5", "loadDiT", "loadAutoEncoder"} :
             (unit[1] = method /\ ~unit[2] /\ unit'[1] = method) => unit'[3]]_vars

\* A failed load of each stage was made on a handle that holds the other
\* two stages; here the decoder's load failed at tensor allocation.
C14_Witness ==
    /\ unit[1] = "loadAutoEncoder" /\ ~unit[2] /\ unit[3]
    /\ g_last_error = "Failed to allocate AutoEncoder tensors"
    /\ T5Ready /\ DiTReady

\* C15 (SpecStage): load of a stage that is Ready returns true and changes
\* nothing: the stage's model, interpreter and delegates, the other stages
\* and the last error stay as they were, and no file is opened.
C15_LoadIdempotent ==
    [][/\ (T5Ready /\ unit'[1] = "loadT5")
            => (unit'[2] /\ ~unit'[3] /\ UNCHANGED <<stagevars, g_last_error>>)
       /\ (DiTReady /\ unit'[1] = "loadDiT")
            => (unit'[2] /\ ~unit'[3] /\ UNCHANGED <<stagevars, g_last_error>>)
       /\ (AutoEncoderReady /\ unit'[1] = "loadAutoEncoder")
            => (unit'[2] /\ ~unit'[3] /\ UNCHANGED <<stagevars, g_last_error>>)]_vars

\* load returned true without opening a file, on a decoder stage that holds
\* its GPU delegate.
C15_Witness ==
    /\ unit[1] = "loadAutoEncoder" /\ unit[2] /\ ~unit[3]
    /\ AutoEncoderReady /\ gpu_delegate_autoencoder

\* C16 (SpecStage): after unload the stage holds no delegate, no interpreter
\* and no model, from whatever state it was called; unload of a stage that
\* is already Unloaded changes nothing.
C16_UnloadSafeIdempotent ==
    /\ [](/\ unit[1] = "unloadT5" => T5Unloaded
          /\ unit[1] = "unloadDiT" => DiTUnloaded
          /\ unit[1] = "unloadAutoEncoder" => AutoEncoderUnloaded)
    /\ [][/\ (T5Unloaded /\ unit'[1] = "unloadT5") => UNCHANGED <<stagevars, g_last_error>>
          /\ (DiTUnloaded /\ unit'[1] = "unloadDiT") => UNCHANGED <<stagevars, g_last_error>>
          /\ (AutoEncoderUnloaded /\ unit'[1] = "unloadAutoEncoder")
                => UNCHANGED <<stagevars, g_last_error>>]_vars

\* The diffuser was unloaded while the other two stages stay Ready.
C16_Witness ==
    /\ unit[1] = "unloadDiT"
    /\ DiTUnloaded /\ T5Ready /\ AutoEncoderReady

\* C32 (SpecStage): a load whose model file opens, whose interpreter builds
\* and whose tensors allocate returns true whichever delegates attach; the
\* encoder never gets a GPU delegate, the diffuser and the decoder get one only
\* on a handle made with GPU requested and only if it attaches; the XNNPACK
\* delegate is attached exactly when no GPU delegate is and it attaches; if it
\* does not, the stage is ready with no delegate; a stage never has both.
C32_DelegateFallback ==
    /\ ~(gpu_delegate_dit /\ xnnpack_delegate_dit)
    /\ ~(gpu_delegate_autoencoder /\ xnnpack_delegate_autoencoder)
    /\ (gpu_delegate_dit \/ gpu_delegate_autoencoder) => try_gpu
    /\ (unit[1] \in {"loadT5", "loadDiT", "loadAutoEncoder"} /\ unit[3]) =>
          LET o == unit[4]
              attached ==
                  CASE unit[1] = "loadT5" -> <<T5Ready, FALSE, xnnpack_delegate_t5>>
                    [] unit[1] = "loadDiT" ->
                          <<DiTReady, gpu_delegate_dit, xnnpack_delegate_dit>>
                    [] unit[1] = "loadAutoEncoder" ->
                          <<AutoEncoderReady, gpu_delegate_autoencoder,
                            xnnpack_delegate_autoencoder>>
          IN  (o.open /\ o.build /\ o.alloc) =>
                /\ unit[2]
                /\ attached[1]
                /\ attached[2] <=> (unit[1] # "loadT5" /\ try_gpu /\ o.gpu)
                /\ attached[3] <=> (~attached[2] /\ o.xnn)

\* GPU was requested, neither delegate attached, the diffuser is ready.
C32_Witness ==
    /\ unit = <<"loadDiT", TRUE, TRUE, LoadOutcome(TRUE, TRUE, FALSE, FALSE, TRUE)>>
    /\ try_gpu
    /\ DiTReady
    /\ ~gpu_delegate_dit /\ ~xnnpack_delegate_dit

\* ------------------------------------------------- request parameters
\* A float is <<"finite", e>>, the value e/8 (eighths of a second are exact
\* in binary32, and so are their products with 44100 up to 11 s), or NaN.
Eighths(e) == <<"finite", e>>
NaN == <<"nan", 0>>
\* operator< on float: false when either side is NaN.
float_less(a, b) == a[1] = "finite" /\ b[1] = "finite" /\ a[2] < b[2]
\* std::min(a, b) is (b < a) ? b : a and std::max(a, b) is (a < b) ? b : a.
std_min(a, b) == IF float_less(b, a) THEN b ELSE a
std_max(a, b) == IF float_less(a, b) THEN b ELSE a

\* line 850: std::max(0.5f, std::min(11.0f, duration_seconds))
ClampDuration_unclamped(duration_seconds) == duration_seconds

ClampDuration(duration_seconds) ==
    std_max(Eighths(4), std_min(Eighths(88), duration_seconds))

\* The jfloat and jint a caller may pass.
Durations == {Eighths(e) : e \in (0 - MaxEighths)..MaxEighths} \cup {NaN}
StepRequests == (0 - 1)..MaxRequestedSteps

\* lines 850-851, on their own.
ClampRequest ==
    /\ Fresh
    /\ \E duration_seconds \in Durations, num_steps \in StepRequests :
          unit' = <<"clamp", duration_seconds, num_steps,
                    ClampDuration(duration_seconds), ClampSteps(num_steps)>>
    /\ UNCHANGED <<pipelinevars, g_last_error, stagevars>>

\* C17 (SpecCalc): the effective duration is the requested one clamped to
\* [0.5 s, 11.0 s] (4 to 88 eighths) and the effective step count is the
\* requested one clamped to [1, 100]; whatever is requested, a duration and
\* a step count inside the ranges come out and the call goes on with them.
C17_ParametersClamped ==
    unit[1] = "clamp" =>
        LET d == unit[2]
            n == unit[3]
        IN  /\ unit[4][1] = "finite" /\ unit[4][2] \in 4..88
            /\ d[1] = "finite" =>
                  unit[4][2] = (IF d[2] < 4 THEN 4 ELSE IF d[2] > 88 THEN 88 ELSE d[2])
            /\ unit[5] = (IF n < 1 THEN 1 ELSE IF n > 100 THEN 100 ELSE n)

\* A request for 0.125 s and 0 steps runs with 0.5 s and 1 step.
C17_Witness == unit = <<"clamp", Eighths(1), 0, Eighths(4), 1>>

\* --------------------------------------------------------- trim and save
\* lines 136-138
k_audio_sr == 44100
k_audio_num_channels == 2
k_bits_per_sample == 32

\* line 1312: static_cast<size_t>(audio_len_sec * k_audio_sr); the product of
\* a clamped duration in eighths with 44100 is exact in binary32 and the
\* cast drops the fraction.
requested_samples(audio_len_sec) == (audio_len_sec[2] * k_audio_sr) \div 8

\* lines 1306-1313: what save_as_wav is handed for a decoder output tensor
\* of total_elems floats.  left_ch is the tensor's start and right_ch starts
\* total_audio_samples floats in.
num_audio_samples_untrimmed(audio_len_sec, total_elems) == requested_samples(audio_len_sec)

num_audio_samples(audio_len_sec, total_elems) ==
    LET total_audio_samples == total_elems \div 2
    IN  Min(requested_samples(audio_len_sec), total_audio_samples)

right_ch(total_elems) == total_elems \div 2

\* Element counts of a decoder output: very short ones, and those within
\* MaxElems of twice the requested sample count.
DecoderOutputs(audio_len_sec) ==
    0..MaxElems \cup
    {2 * requested_samples(audio_len_sec) + delta : delta \in (0 - MaxElems)..MaxElems}

\* lines 850 and 1306-1313 on their own.
TrimOutput ==
    /\ Fresh
    /\ \E duration_seconds \in Durations :
        LET audio_len_sec == ClampDuration(duration_seconds)
        IN  \E total_elems \in DecoderOutputs(audio_len_sec) :
               unit' = <<"trim", audio_len_sec, total_elems,
                         num_audio_samples(audio_len_sec, total_elems),
                         right_ch(total_elems)>>
    /\ UNCHANGED <<pipelinevars, g_last_error, stagevars>>

\* C19 (SpecCalc): the samples per channel handed to the waveform encoder
\* are min(floor(effective duration * 44100), decoder samples per channel);
\* that is never more than half the decoder output, and the last element
\* read for the left channel and for the right channel lies inside the
\* decoder output tensor.
C19_TrimWithinDecoderOutput ==
    unit[1] = "trim" =>
        LET seconds_by_8 == unit[2][2]
            total_elems == unit[3]
            n == unit[4]
            per_channel == total_elems \div 2
            floor_samples == (seconds_by_8 * 44100) \div 8
        IN  /\ 8 * floor_samples <= seconds_by_8 * 44100
            /\ seconds_by_8 * 44100 < 8 * (floor_samples + 1)
            /\ n = (IF floor_samples <= per_channel THEN floor_samples ELSE per_channel)
            /\ n <= per_channel
            /\ n > 0 => (n - 1 < total_elems /\ unit[5] + n - 1 < total_elems)

\* A request for 1.125 s (49612.5 samples) on a decoder output one sample
\* short of it per channel: the decoder's length is written.
C19_Witness ==
    /\ unit[1] = "trim"
    /\ unit[2] = Eighths(9)
    /\ unit[3] = 2 * 49612 - 2
    /\ unit[4] = 49611

\* lines 259-297: save_as_wav.  The file is the sequence of bytes written.
\* out_file.write(reinterpret_cast<const char*>(&value), count) writes the
\* first count bytes of the object; every Android ABI is little-endian, so
\* these are the low-order bytes first (the channel count and the bit depth
\* are int32_t objects of which two bytes are written).
raw_bytes(value, count) == [k \in 1..count |-> (value \div (256 ^ (k - 1))) % 256]

\* line 267: header_sz + data_chunk_sz - 8
wav_file_sz_whole(data_chunk_sz) == 44 + data_chunk_sz

wav_file_sz(data_chunk_sz) == 44 + data_chunk_sz - 8

\* lines 260-291
wav_header(buffer_sz) ==
    LET audio_format == 3
        byte_rate == k_audio_sr * k_audio_num_channels * (k_bits_per_sample \div 8)
        block_align == k_audio_num_channels * (k_bits_per_sample \div 8)
        data_chunk_sz == buffer_sz * 2 * 4
        fmt_chunk_sz == 16
    IN  <<"R", "I", "F", "F">> \o raw_bytes(wav_file_sz(data_chunk_sz), 4)
        \o <<"W", "A", "V", "E">>
        \o <<"f", "m", "t", " ">> \o raw_bytes(fmt_chunk_sz, 4)
        \o raw_bytes(audio_format, 2)
        \o raw_bytes(k_audio_num_channels, 2)
        \o raw_bytes(k_audio_sr, 4)
        \o raw_bytes(byte_rate, 4)
        \o raw_bytes(block_align, 2)
        \o raw_bytes(k_bits_per_sample, 2)
        \o <<"d", "a", "t", "a">> \o raw_bytes(data_chunk_sz, 4)

\* lines 293-296: the four bytes of left_ch[i], then those of right_ch[i];
\* byte b of element i of a channel is the symbol <<channel, i, b>>.
RECURSIVE wav_frames(_)
wav_frames(buffer_sz) ==
    IF buffer_sz = 0 THEN << >>
    ELSE wav_frames(buffer_sz - 1)
         \o [b \in 1..4 |-> <<"left", buffer_sz, b>>]
         \o [b \in 1..4 |-> <<"right", buffer_sz, b>>]

\* The number of bytes lines 274-296 write.
wav_bytes(buffer_sz) == Len(wav_header(buffer_sz)) + buffer_sz * (4 + 4)

\* save_as_wav on its own, for a few frames and for the sample counts of
\* every clamped duration; unit keeps the header, the first MaxFrames frames
\* and the number of bytes written.
SaveAsWav ==
    /\ Fresh
    /\ \E buffer_sz \in 0..MaxFrames \cup
                        {requested_samples(ClampDuration(d)) : d \in Durations} :
          unit' = <<"save_as_wav", buffer_sz, wav_header(buffer_sz),
                    wav_frames(Min(buffer_sz, MaxFrames)), wav_bytes(buffer_sz)>>
    /\ UNCHANGED <<pipelinevars, g_last_error, stagevars>>

\* C20 (SpecCalc): for n samples per channel the file is 44 + n*2*4 bytes: a
\* 44-byte header whose fields read RIFF size 36 + n*8, format 3, 2
\* channels, rate 44100, byte rate 44100*2*4, block align 8, 32 bits per
\* sample and data size n*8, then n frames of left followed by right; 2.0 s
\* are 88200 samples per channel and 705644 bytes.
C20_WavLayout ==
    unit[1] = "save_as_wav" =>
        LET n == unit[2]
            header == unit[3]
            frames == unit[4]
            u16(at) == header[at] + 256 * header[at + 1]
            u32(at) == u16(at) + 65536 * u16(at + 2)
        IN  /\ Len(header) = 44
            /\ unit[5] = 44 + n * 2 * 4
            /\ SubSeq(header, 1, 4) = <<"R", "I", "F", "F">>
            /\ u32(5) = 36 + n * 8
            /\ SubSeq(header, 9, 16) = <<"W", "A", "V", "E", "f", "m", "t", " ">>
            /\ u32(17) = 16
            /\ u16(21) = 3
            /\ u16(23) = 2
            /\ u32(25) = 44100
            /\ u32(29) = 44100 * 2 * 4
            /\ u16(33) = 8
            /\ u16(35) = 32
            /\ SubSeq(header, 37, 40) = <<"d", "a", "t", "a">>
            /\ u32(41) = n * 8
            /\ n <= MaxFrames =>
                  /\ Len(header) + Len(frames) = unit[5]
                  /\ \A f \in 1..n, b \in 1..4 :
                        /\ frames[8 * (f - 1) + b] = <<"left", f, b>>
                        /\ frames[8 * (f - 1) + 4 + b] = <<"right", f, b>>
            /\ n = requested_samples(Eighths(16)) => (n = 88200 /\ unit[5] = 705644)

\* The file of a 2.0 s request.
C20_Witness ==
    /\ unit[1] = "save_as_wav"
    /\ unit[2] = 88200
    /\ unit[5] = 705644

\* ------------------------------------------------------ two equal calls
\* The audio of one successful generate call, for models that are
\* deterministic and tell any two inputs apart: it is determined by the
\* seed (noise, line 1180, and the sampler's seed + i + 4564, line 1212, are
\* std::mt19937 streams of the seed) and by what the diffuser reads in its
\* conditioning inputs (lines 1131-1170).  cond is the captured encoder
\* output, tensor the memory of the diffuser's input after loadDiT.
generate_audio(seed, cond, tensor) ==
    <<"audio", seed, bind_crossattn(cond, tensor), bind_globalcond(cond, tensor)>>

\* Two sequential calls with the same prompt, duration, steps and seed on
\* the same model files.  Each call loads the diffuser anew (lines 1093 and
\* 1233), so each finds its own tensor memory.
GenerateTwice ==
    /\ Fresh
    /\ \E seed \in 0..1, n \in 0..MaxElems, m \in 0..MaxElems :
         \E first \in FreshTensors(m), second \in FreshTensors(m) :
            unit' = <<"generate_twice", n, m,
                      generate_audio(seed, CondBuffer(n), first),
                      generate_audio(seed, CondBuffer(n), second)>>
    /\ UNCHANGED <<pipelinevars, g_last_error, stagevars>>

\* C18 (SpecCalc) as the specification states it: two sequential calls with
\* identical prompt, duration, step count and seed give identical audio.
C18_Deterministic ==
    unit[1] = "generate_twice" => unit[4] = unit[5]

\* -------------------------------------------------------- sigma schedule
\* lines 168-170
k_logsnr_max == -6
k_sigma_min == 0
k_sigma_max == 1

\* A sigma is <<"exact", v>>, the float v, or <<"sigmoid", num, den>>, the
\* float 1.0f / (1.0f + std::exp(num/den)).  For a finite argument above
\* -16 the latter lies strictly between 0 and 1 and falls as the argument
\* grows; the arguments of a schedule lie in [-6, 2].
Exact(v) == <<"exact", v>>
sigma_less(a, b) ==
    IF a[1] = "exact" /\ b[1] = "exact" THEN a[2] < b[2]
    ELSE IF a[1] = "exact" THEN a[2] <= 0
    ELSE IF b[1] = "exact" THEN b[2] >= 1
    ELSE a[2] * b[3] > b[2] * a[3]

\* lines 226-231: the linspace, in units of 1/(sz - 1) so that the step
\* (end - start) / (sz - 1) is the integer end - start.  arr[0] is start,
\* arr[sz - 1] is end, and the loop adds the step to arr[0] `at` times to
\* reach arr[at].
linspace(sz, start, end, at) ==
    IF at = sz - 1 THEN end * (sz - 1)
    ELSE start * (sz - 1) + at * (end - start)

\* lines 222-240; the result is arr, element k of the sequence being
\* arr[k - 1].
fill_sigmas_open_ended(sz, start, end, sigma_max) ==
    [k \in 1..sz |->
        IF k = 1 THEN Exact(sigma_max)
        ELSE <<"sigmoid", linspace(sz, start, end, k - 1), sz - 1>>]

fill_sigmas(sz, start, end, sigma_max) ==
    [k \in 1..sz |->
        IF k = sz THEN Exact(k_sigma_min)
        ELSE IF k = 1 THEN Exact(sigma_max)
        ELSE <<"sigmoid", linspace(sz, start, end, k - 1), sz - 1>>]

\* lines 851-852 and 1183-1188: t_buffer of one call.
t_buffer(num_steps) ==
    LET sigma_max == k_sigma_max
        logsnr_max == k_logsnr_max
    IN  fill_sigmas(ClampSteps(num_steps) + 1, logsnr_max, 2, sigma_max)

SigmaSchedule ==
    /\ Fresh
    /\ \E num_steps \in StepRequests :
          unit' = <<"fill_sigmas", ClampSteps(num_steps), t_buffer(num_steps)>>
    /\ UNCHANGED <<pipelinevars, g_last_error, stagevars>>

\* C21 (SpecCalc): for every step count N in 1..100 the schedule has N + 1
\* values, the first is the maximum sigma 1.0, the last is 0.0, every value
\* between them lies strictly between 0 and the maximum, and no value is
\* greater than the one before it.
C21_SigmaSchedule ==
    unit[1] = "fill_sigmas" =>
        LET N == unit[2]
            t == unit[3]
        IN  /\ N \in 1..100
            /\ Len(t) = N + 1
            /\ t[1] = Exact(1)
            /\ t[N + 1] = Exact(0)
            /\ \A k \in 2..N : sigma_less(Exact(0), t[k]) /\ sigma_less(t[k], Exact(1))
            /\ \A k \in 1..N : ~sigma_less(t[k], t[k + 1])

\* The schedule of the largest step count.
C21_Witness ==
    /\ unit[1] = "fill_sigmas"
    /\ unit[2] = 100
    /\ Len(unit[3]) = 101
    /\ unit[3][51] = <<"sigmoid", -200, 100>>

\* ------------------------------------------------------ ping-pong sampler
\* Fixed point: a sigma is a multiple of 1/SigmaDen.  The exact sigmas of a
\* schedule (1.0 and 0.0) keep their value; a sigmoid, which lies strictly
\* between them, is any multiple strictly between.
sigma_values(sigma) ==
    IF sigma[1] = "exact" THEN {sigma[2] * SigmaDen} ELSE 1..(SigmaDen - 1)

\* lines 243-256.  Tensor elements are integers; the result gives
\* dit_out_data (the denoised sample) in units of 1/SigmaDen and
\* dit_x_in_data (the new state) in units of 1/SigmaDen^2.  rand_tensor is
\* what fill_random_norm_dist yields for the step's seed.
sampler_ping_pong_noisy(dit_out_data, dit_x_in_data, cur_t, next_t, rand_tensor) ==
    LET denoised == [k \in 1..Len(dit_x_in_data) |->
                        SigmaDen * dit_x_in_data[k] - cur_t * dit_out_data[k]]
    IN  [dit_out_data |-> denoised,
         dit_x_in_data |-> [k \in 1..Len(dit_x_in_data) |->
                               (SigmaDen - next_t) * denoised[k]
                               + SigmaDen * SigmaDen * rand_tensor[k]]]

sampler_ping_pong(dit_out_data, dit_x_in_data, cur_t, next_t, rand_tensor) ==
    LET denoised == [k \in 1..Len(dit_x_in_data) |->
                        SigmaDen * dit_x_in_data[k] - cur_t * dit_out_data[k]]
    IN  [dit_out_data |-> denoised,
         dit_x_in_data |-> [k \in 1..Len(dit_x_in_data) |->
                               (SigmaDen - next_t) * denoised[k]
                               + next_t * SigmaDen * rand_tensor[k]]]

\* lines 1202-1212: the sampler call of step `step` of a call with `steps`
\* steps, curr_t = t_buffer[step] and next_t = t_buffer[step + 1], on a
\* latent of 1..MaxElems elements.
SamplerStep ==
    /\ Fresh
    /\ \E N \in 1..MaxSteps :
       \E step \in 0..(N - 1), n \in 1..MaxElems :
       \E curr_t \in sigma_values(t_buffer(N)[step + 1]),
          next_t \in sigma_values(t_buffer(N)[step + 2]),
          x \in [1..n -> {-1, 1}], out \in [1..n -> {0, 1}], rand \in [1..n -> {-1, 1}] :
            unit' = <<"sampler", N, step,
                      [x |-> x, out |-> out, rand |-> rand,
                       curr_t |-> curr_t, next_t |-> next_t],
                      sampler_ping_pong(out, x, curr_t, next_t, rand)>>
    /\ UNCHANGED <<pipelinevars, g_last_error, stagevars>>

\* C22 (SpecCalc): for every element, denoised = state - sigma_cur *
\* prediction and new state = (1 - sigma_next) * denoised + sigma_next *
\* noise; when sigma_next is 0 the new state equals denoised, and the last
\* step of every call has sigma_next = 0, so the latent that goes to the
\* decoder carries no injected noise.
C22_PingPong ==
    unit[1] = "sampler" =>
        LET N == unit[2]
            arg == unit[4]
            denoised == unit[5].dit_out_data
            state == unit[5].dit_x_in_data
        IN  /\ Len(denoised) = Len(arg.x) /\ Len(state) = Len(arg.x)
            /\ \A k \in 1..Len(arg.x) :
                  /\ denoised[k] = SigmaDen * arg.x[k] - arg.curr_t * arg.out[k]
                  /\ state[k] = (SigmaDen - arg.next_t) * denoised[k]
                                + arg.next_t * SigmaDen * arg.rand[k]
                  /\ arg.next_t = 0 => state[k] = SigmaDen * denoised[k]
            /\ unit[3] = N - 1 => (arg.next_t = 0 /\ \A k \in 1..Len(arg.x) :
                                                        state[k] = SigmaDen * denoised[k])

\* The last of two steps on a latent of two elements, with noise drawn.
C22_Witness ==
    /\ unit[1] = "sampler"
    /\ unit[2] = 2 /\ unit[3] = 1
    /\ unit[4].curr_t = 1 /\ unit[4].next_t = 0
    /\ unit[4].x = <<1, -1>> /\ unit[4].out = <<1, 1>> /\ unit[4].rand = <<-1, 1>>
    /\ unit[5].dit_x_in_data = <<2, -6>>

\* -------------------------------------------------------- slot lookup
\* lines 881-906 on their own: one role looked up in a tensor list of up to
\* MaxElems declared names, with the candidates in either order and each of
\* the positional indices k_t5_*_idx (0, 1, 2).
ResolveT5Slot ==
    /\ Fresh
    /\ \E n \in 0..MaxElems, fallback_idx \in 0..2,
          name_patterns \in {<<"input_ids", "ids">>, <<"ids", "input_ids">>} :
          \E names \in [1..n -> {"input_ids", "Input_IDs", "token_ids", "args_0"}] :
              unit' = <<"t5_slot", names, name_patterns, fallback_idx,
                        T5Slot(names, name_patterns, fallback_idx)>>
    /\ UNCHANGED <<pipelinevars, g_last_error, stagevars>>

\* C31 (SpecCalc): the slot of a role is the first tensor of the list whose
\* name contains one of the candidates, compared case-sensitively, whatever
\* the order of the candidates; if no name contains a candidate it is the
\* tensor at the caller's positional index when the list is longer than that
\* index, and -1 otherwise; it is -1 or a position of the list.
C31_SlotResolution ==
    unit[1] = "t5_slot" =>
        LET names == unit[2]
            pats == unit[3]
            idx == unit[4]
            slot == unit[5]
            has(k) == \E p \in 1..Len(pats) : Contains(names[k], pats[p])
            matched == \E k \in 1..Len(names) : has(k)
        IN  /\ slot \in {-1} \cup (1..Len(names))
            /\ matched => has(slot) /\ \A k \in 1..(slot - 1) : ~has(k)
            /\ (~matched /\ Len(names) > idx) => slot = idx + 1
            /\ (~matched /\ Len(names) <= idx) => slot = -1

\* No name of the list contains a candidate ("Input_IDs" differs in case) and
\* the list has three tensors: the third is taken by position.
C31_Witness ==
    unit = <<"t5_slot", <<"args_0", "Input_IDs", "args_0">>, <<"input_ids", "ids">>, 2, 3>>

\* lines 1105-1112 on their own: the four input roles of the diffuser looked
\* up in a tensor list that declares any of the inputs, in any order, under
\* the names of the new export format or of the old one.
ResolveDiTSlots ==
    /\ Fresh
    /\ \E format \in { <<"x", "t", "cross_attn_cond", "global_cond">>,
                        <<"serving_default_x:0", "serving_default_t:0",
                          "serving_default_cross_attn_cond:0",
                          "serving_default_global_cond:0">> } :
          \E n \in 0..4 : \E order \in [1..n -> 1..4] :
              /\ \A a, b \in 1..n : order[a] = order[b] => a = b
              /\ LET m == [in_names |-> [k \in 1..n |-> format[order[k]]],
                           n_outputs |-> 1, x_elems |-> 1]
                 IN  unit' = <<"dit_slots", m.in_names,
                               [x |-> dit_x_in_id(m), t |-> dit_t_in_id(m),
                                crossattn |-> dit_crossattn_in_id(m),
                                globalcond |-> dit_globalcond_in_id(m)]>>
    /\ UNCHANGED <<pipelinevars, g_last_error, stagevars>>

\* C34 (SpecCalc): whatever inputs the diffuser declares and in whatever
\* order, no two of the roles x, t, cross-attention and global conditioning
\* that resolve at all resolve to the same tensor.
C34_RolesDistinct ==
    unit[1] = "dit_slots" =>
        \A r1, r2 \in {"x", "t", "crossattn", "globalcond"} :
            (r1 # r2 /\ unit[3][r1] >= 0) => unit[3][r1] # unit[3][r2]

\* ------------------------------------------------ text-generation bridge
\* llama_jni.cpp, lines 74-75: the context llamaInitFromFile creates.
n_ctx == 2048
n_batch == 2048

\* llamaGenerate, lines 158-258, on a context that holds n_past positions.
\* n_prompt is the token count of the prompt, eog_at the number of tokens the
\* model produces before its end-of-generation token.  llama_batch_get_one
\* passes no positions, so llama_decode places a batch behind the positions
\* the context already holds, and fails, leaving the context as it was, when
\* the batch does not fit into n_ctx.  The loop of lines 218-254 appends the
\* sampled token to the result before it decodes it.
llamaGenerate(n_past, n_prompt, max_tokens, eog_at) ==
    LET predict == Min(Max(max_tokens, 64), 2048)
        prompt == IF n_prompt > n_batch THEN n_batch - 1 ELSE n_prompt
        n_predict == IF prompt + predict > n_ctx THEN n_ctx - prompt - 1 ELSE predict
        room == n_ctx - (n_past + prompt)
        n_decode == Min(Min(n_predict, eog_at), room)
        empty == [pos_0 |-> -1, sampled |-> 0, n_past |-> n_past]
    IN  IF n_predict <= 0 THEN empty
        ELSE IF room < 0 THEN empty
        ELSE [pos_0 |-> n_past,
              sampled |-> Min(Min(n_predict, eog_at), room + 1),
              n_past |-> n_past + prompt + n_decode]

\* A caller calls llamaGenerate on the context again and again.
LlamaGenerate ==
    /\ unit[1] \in {"none", "llamaGenerate"}
    /\ \E n_prompt \in {1, 1000, 2049}, max_tokens \in {1, 1000}, eog_at \in {0, 10, 2048} :
          LET n_past == IF unit[1] = "none" THEN 0 ELSE unit[3].n_past
          IN  unit' = <<"llamaGenerate",
                        [n_past |-> n_past, n_prompt |-> n_prompt,
                         max_tokens |-> max_tokens, eog_at |-> eog_at],
                        llamaGenerate(n_past, n_prompt, max_tokens, eog_at)>>
    /\ UNCHANGED <<pipelinevars, g_last_error, stagevars>>

\* C33 (SpecCalc): a call that decodes starts at position 0, returns what the
\* same call returns on a context that holds nothing, and leaves at most n_ctx
\* positions in the context.
C33_StartsFromResetCache ==
    unit[1] = "llamaGenerate" =>
        LET call == unit[2]
            fresh == llamaGenerate(0, call.n_prompt, call.max_tokens, call.eog_at)
        IN  /\ unit[3].pos_0 \in {-1, 0}
            /\ unit[3].pos_0 = fresh.pos_0
            /\ unit[3].sampled = fresh.sampled
            /\ unit[3].n_past <= n_ctx

\* ------------------------------------------------- encoder input binding
\* lines 922-1001 on their own, for a prompt of n_ids token ids (at least the
\* EOS that convert_prompt_to_ids appends, lines 300-309) and an ids and an
\* attention-mask tensor of the given element counts.  Each tensor is zeroed
\* over its own length and then written at the indices 0..ids.size()-1; a
\* write at an index past the tensor's length lands outside the tensor, after
\* which the call goes on with damaged memory or the process dies.
BindT5Inputs ==
    /\ Fresh
    /\ \E n_ids \in 1..(MaxElems + 1), ids_num_elems, attnmask_num_elems \in 1..MaxElems :
          LET written(num_elems) == [k \in 1..Max(n_ids, num_elems) |->
                                        IF k <= n_ids THEN 1 ELSE 0]
              overrun == n_ids > ids_num_elems \/ n_ids > attnmask_num_elems
          IN  \E outcome \in IF overrun THEN {"corrupted", "crashed"} ELSE {"bound"} :
                  unit' = <<"t5_inputs", n_ids, ids_num_elems, attnmask_num_elems,
                            written(ids_num_elems), written(attnmask_num_elems), outcome>>
    /\ UNCHANGED <<pipelinevars, g_last_error, stagevars>>

\* C35 (SpecCalc): whatever the length of the prompt, no token id and no mask
\* value is written past the end of its tensor; the mask holds 1 at the first
\* ids.size() positions and 0 at all others.
C35_BindingWithinTensors ==
    unit[1] = "t5_inputs" =>
        /\ Len(unit[5]) = unit[3]
        /\ Len(unit[6]) = unit[4]
        /\ \A k \in 1..Len(unit[6]) : unit[6][k] = (IF k <= unit[2] THEN 1 ELSE 0)
        /\ unit[7] = "bound"

\* The helper functions of generate, each applied on its own to inputs
\* from bounded sets.
NextCalc ==
    \/ BindConditioning
    \/ ClampRequest
    \/ TrimOutput
    \/ SaveAsWav
    \/ GenerateTwice
    \/ SigmaSchedule
    \/ SamplerStep
    \/ ResolveT5Slot
    \/ ResolveDiTSlots
    \/ LlamaGenerate
    \/ BindT5Inputs

SpecCalc == InitReady /\ [][NextCalc]_vars

====
